---- MODULE Spec2Model ----
(***************************************************************************)
(* Market pricing pipeline and batch orchestration of prix-cartes.         *)
(*                                                                         *)
(*   SpecRun   : one invocation of BatchRunner.run (src/batch/runner.py)   *)
(*   SpecGuard : PriceGuardrails.check (src/pricing/guardrails.py)         *)
(*   SpecQueue : BatchQueue, its dispatcher threads and the runs of its     *)
(*               pool workers (src/batch/queue.py)                          *)
(*   FairSpecDrain : add() against the dispatcher and the workers, with the *)
(*               threads scheduled fairly                                   *)
(*   SpecCooldown : the 429 marker of src/ebay/usage_tracker.py             *)
(*   SpecCollect : EbayWorker.collect_for_card (src/ebay/worker.py)         *)
(*   SpecScore : ConfidenceScorer.calculate (src/pricing/confidence.py)     *)
(*   SpecCalculate : PriceCalculator.calculate (src/pricing/calculator.py)  *)
(*   SpecConfigured : the same with configured price bounds and step        *)
(*   SpecQueuedRun : BatchRunner.run with the callback of the queue          *)
(*   SpecSearchAll : EbayClient.search_all (src/ebay/client.py)              *)
(*   SpecWorklist : BatchRunner._get_cards_to_process                        *)
(*   SpecRunners : the runs of several pool workers and their call counters  *)
(*   FairSpecStop : add() and stop() against the fairly scheduled threads   *)
(*                                                                         *)
(* Prices are integers (currency units); a dispersion is kept in tenths.   *)
(* Python's None is the value None below.                                  *)
(***************************************************************************)
EXTENDS Integers, Sequences, FiniteSets, TLC

(* ----------------------------- bounds --------------------------------- *)
\* longest worklist of a run
MaxCards == 12
\* items of one run that are not the plain one-call "No items found" failure
MaxSpecial == 2
\* largest price explored by the guardrail
MaxPrice == 6
\* hours the clock runs: past the 09:00 of the second day
MaxHours == 34
\* QueueItems ever created
MaxItems == 2
\* times the worker pool (executor and dispatcher thread) is started
MaxSpawn == 1
\* cards of one queued set
CardsPerSet == 1
\* listings returned by one search
MaxListings == 3
\* largest sample size scored
MaxSample == 31
\* largest dispersion scored, in tenths
MaxDispersion == 45
\* largest anchor priced, in quarters of a euro
MaxAnchorQuarters == 40
\* largest max_items of a paginated search
MaxCap == 3
\* largest total the marketplace reports
MaxTotal == 7
\* rows of the cards table
MaxRows == 2
\* pool workers running at once
MaxRunners == 2
\* cards of one pool worker's run
MaxTodo == 3

(* ------------------------ program constants ---------------------------- *)
MAX_SET_FAILURES == 10
EBAY_RESET_HOUR == 9
DefaultDailyLimit == 5000
\* GuardrailsConfig, in tenths
mismatch_upper == 25
mismatch_lower == 4
dispersion_bad == 40

None == -1000

EBAY_ACTIVE == "EBAY_ACTIVE"
CARDMARKET_FALLBACK == "CARDMARKET_FALLBACK"

VARIABLES
    \* ---- BatchRunner.run ----
    run_pc,                 \* "not_started" | "loop" | "finalize" | "done"
    cards,                  \* the worklist: the set_id of each card, in order
    starting_ebay_count,    \* self._starting_ebay_count
    session_call_count,     \* self._session_call_count
    stats,                  \* BatchStats
    set_failures,           \* set_id -> consecutive failures (0 when absent)
    skipped_sets,           \* sets the run has given up on
    card_results,           \* per-item outcomes [status, error]
    progress_callback,      \* the callback run() was given: "None", the one of
                            \* run_with_progress, or the one of _process_item
    progress_calls,         \* the processed counts the callback was called with
    snapshots,              \* the MarketSnapshots added to the session
    batch_run,              \* the BatchRun row of this run
    error_count,            \* Card.error_count of each card of the worklist
    stop_requested,         \* runner._stop_requested (module-level Event)
    rate_limited,           \* the persistent cooldown marker (RATE_LIMITED_FILE)
    rl_api_date,            \* the "api_date" written in the marker file
    \* ---- clock and scheduler (usage_tracker, run_scheduled_batch) ----
    now,                    \* the local time, in hours since day 0, 00:00
    sched,                  \* what the last scheduled invocation did
    \* ---- pure functions: the last call of each, input and result ----
    c_input, c_result,      \* EbayWorker.collect_for_card
    s_input, s_result,      \* ConfidenceScorer.calculate
    p_input, p_result,      \* PriceCalculator.calculate
    \* ---- BatchQueue ----
    items,                  \* the QueueItem objects, by creation order
    q_queue,                \* self._queue: the ids of the listed items
    q_executor,             \* self._executor: an executor id, 0 for None
    executors,              \* the ThreadPoolExecutors created so far
    max_workers,            \* self._max_workers
    q_stop,                 \* self._stop_requested (the queue's own Event)
    dispatchers,            \* the dispatcher threads: pc and locals
    runs,                   \* the pool task of each item: its BatchRunner.run
    db_429,                 \* some Card row has the 429 failure as its last_error
    stop_owed,              \* history: runs that were in their loop when a stop
                            \* was requested and have not halted since
    \* ---- PriceGuardrails.check ----
    g_input,                \* [anchor, dispersion, cm] of the last call, or NoCall
    g_result,               \* GuardrailResult of the last call
    \* ---- EbayClient.search_all ----
    paging,                 \* the locals of the call: all_items (their number),
                            \* offset, limit, total; requests made; pc
    \* ---- BatchRunner._get_cards_to_process: the last call ----
    w_input, w_result,
    \* ---- the BatchRunners of the pool workers ----
    ebay_count,             \* the marketplace's count of today's calls
    runners                 \* worker -> its runner: pc, _starting_ebay_count,
                            \* _session_call_count, cards left

runVars == <<run_pc, cards, starting_ebay_count, session_call_count, stats,
             set_failures, skipped_sets, card_results, progress_callback,
             progress_calls, snapshots, batch_run, error_count>>
markerVars == <<rate_limited, rl_api_date>>
sharedVars == <<stop_requested, markerVars>>
cooldownVars == <<now, sched>>
collectVars == <<c_input, c_result>>
scoreVars == <<s_input, s_result>>
calcVars == <<p_input, p_result>>
auxVars == <<cooldownVars, collectVars, scoreVars, calcVars>>
queueVars == <<items, q_queue, q_executor, executors, max_workers, q_stop,
               dispatchers, runs, db_429, stop_owed>>
guardVars == <<g_input, g_result>>
pageVars == <<paging>>
worklistVars == <<w_input, w_result>>
poolVars == <<ebay_count, runners>>
extVars == <<pageVars, worklistVars, poolVars>>
vars == <<runVars, sharedVars, queueVars, guardVars, auxVars, extVars>>

(* ======================= PriceGuardrails.check ======================== *)
NoCall == [anchor |-> None, dispersion |-> None, cm |-> None, called |-> FALSE]

GuardrailResult(ebay_anchor) ==
    [is_mismatch |-> FALSE, mismatch_reason |-> "None",
     original_anchor |-> ebay_anchor, original_source |-> EBAY_ACTIVE,
     final_anchor |-> None, final_source |-> EBAY_ACTIVE,
     cardmarket_value |-> None, confidence_penalty |-> 0]

\* Python truthiness of an Optional[float]
Truthy(x) == x # None /\ x # 0

\* mutant: an anchor equal to upper x reference already counts as too high
check_upper_inclusive(cm_value, ebay_anchor, dispersion) ==
    LET result == [GuardrailResult(ebay_anchor) EXCEPT !.cardmarket_value = cm_value]
        fallback(reason, penalty) ==
            [result EXCEPT !.is_mismatch = TRUE, !.mismatch_reason = reason,
                           !.final_anchor = cm_value,
                           !.final_source = CARDMARKET_FALLBACK,
                           !.confidence_penalty = penalty]
        keep == [result EXCEPT !.final_anchor = ebay_anchor,
                               !.final_source = EBAY_ACTIVE]
    IN  IF ebay_anchor = None \/ ebay_anchor <= 0
        THEN IF Truthy(cm_value) /\ cm_value > 0
             THEN fallback("No eBay anchor", 20)
             ELSE result
        ELSE IF cm_value = None \/ cm_value <= 0
        THEN keep
        ELSE IF 10 * ebay_anchor >= mismatch_upper * cm_value
        THEN fallback("eBay > upper x Cardmarket", 15)
        ELSE IF 10 * ebay_anchor < mismatch_lower * cm_value
        THEN fallback("eBay < lower x Cardmarket", 15)
        ELSE IF dispersion # None /\ dispersion > dispersion_bad
        THEN fallback("Dispersion too high", 10)
        ELSE keep

\* mutant: the dispersion is tested before the two bounds
check_dispersion_first(cm_value, ebay_anchor, dispersion) ==
    LET result == [GuardrailResult(ebay_anchor) EXCEPT !.cardmarket_value = cm_value]
        fallback(reason, penalty) ==
            [result EXCEPT !.is_mismatch = TRUE, !.mismatch_reason = reason,
                           !.final_anchor = cm_value,
                           !.final_source = CARDMARKET_FALLBACK,
                           !.confidence_penalty = penalty]
        keep == [result EXCEPT !.final_anchor = ebay_anchor,
                               !.final_source = EBAY_ACTIVE]
    IN  IF ebay_anchor = None \/ ebay_anchor <= 0
        THEN IF Truthy(cm_value) /\ cm_value > 0
             THEN fallback("No eBay anchor", 20)
             ELSE result
        ELSE IF cm_value = None \/ cm_value <= 0
        THEN keep
        ELSE IF dispersion # None /\ dispersion > dispersion_bad
        THEN fallback("Dispersion too high", 10)
        ELSE IF 10 * ebay_anchor > mismatch_upper * cm_value
        THEN fallback("eBay > upper x Cardmarket", 15)
        ELSE IF 10 * ebay_anchor < mismatch_lower * cm_value
        THEN fallback("eBay < lower x Cardmarket", 15)
        ELSE keep

\* mutant: without an anchor the reference is taken whatever it is
check_fallback_always(cm_value, ebay_anchor, dispersion) ==
    LET result == [GuardrailResult(ebay_anchor) EXCEPT !.cardmarket_value = cm_value]
        fallback(reason, penalty) ==
            [result EXCEPT !.is_mismatch = TRUE, !.mismatch_reason = reason,
                           !.final_anchor = cm_value,
                           !.final_source = CARDMARKET_FALLBACK,
                           !.confidence_penalty = penalty]
        keep == [result EXCEPT !.final_anchor = ebay_anchor,
                               !.final_source = EBAY_ACTIVE]
    IN  IF ebay_anchor = None \/ ebay_anchor <= 0
        THEN fallback("No eBay anchor", 20)
        ELSE IF cm_value = None \/ cm_value <= 0
        THEN keep
        ELSE IF 10 * ebay_anchor > mismatch_upper * cm_value
        THEN fallback("eBay > upper x Cardmarket", 15)
        ELSE IF 10 * ebay_anchor < mismatch_lower * cm_value
        THEN fallback("eBay < lower x Cardmarket", 15)
        ELSE IF dispersion # None /\ dispersion > dispersion_bad
        THEN fallback("Dispersion too high", 10)
        ELSE keep

\* PriceGuardrails.check; cm_value is card.cm_max
check(cm_value, ebay_anchor, dispersion) ==
    LET result == [GuardrailResult(ebay_anchor) EXCEPT !.cardmarket_value = cm_value]
        fallback(reason, penalty) ==
            [result EXCEPT !.is_mismatch = TRUE, !.mismatch_reason = reason,
                           !.final_anchor = cm_value,
                           !.final_source = CARDMARKET_FALLBACK,
                           !.confidence_penalty = penalty]
        keep == [result EXCEPT !.final_anchor = ebay_anchor,
                               !.final_source = EBAY_ACTIVE]
    IN  IF ebay_anchor = None \/ ebay_anchor <= 0
        THEN IF Truthy(cm_value) /\ cm_value > 0
             THEN fallback("No eBay anchor", 20)
             ELSE result
        ELSE IF cm_value = None \/ cm_value <= 0
        THEN keep
        ELSE IF 10 * ebay_anchor > mismatch_upper * cm_value
        THEN fallback("eBay > upper x Cardmarket", 15)
        ELSE IF 10 * ebay_anchor < mismatch_lower * cm_value
        THEN fallback("eBay < lower x Cardmarket", 15)
        ELSE IF dispersion # None /\ dispersion > dispersion_bad
        THEN fallback("Dispersion too high", 10)
        ELSE keep

\* the small prices, and the prices of the documented examples
Anchors == {None} \cup (-1 .. MaxPrice) \cup {9, 25, 26}
References == {None} \cup (-1 .. MaxPrice) \cup {10}
Dispersions == {None, 10, dispersion_bad, dispersion_bad + 1}

Check ==
    /\ \E a \in Anchors, d \in Dispersions, c \in References :
          /\ g_input' = [anchor |-> a, dispersion |-> d, cm |-> c, called |-> TRUE]
          /\ g_result' = check(c, a, d)
    /\ UNCHANGED <<runVars, sharedVars, queueVars, auxVars, extVars>>

(* ================= usage_tracker: the 429 cooldown marker ============== *)
Hour(t) == t % 24
Day(t) == t \div 24

\* mutant: the API day changes at midnight
get_ebay_api_date_midnight(t) == Day(t)

\* the "API day": before 09:00 it is still the previous day
get_ebay_api_date(t) == IF Hour(t) < EBAY_RESET_HOUR THEN Day(t) - 1 ELSE Day(t)

\* set_rate_limited(): write the marker file with the current API day
set_rate_limited ==
    /\ rate_limited' = TRUE
    /\ rl_api_date' = get_ebay_api_date(now)

\* the value of is_rate_limited(): the file exists and is of the current API day
is_rate_limited == rate_limited /\ rl_api_date = get_ebay_api_date(now)

InitCooldown ==
    /\ rl_api_date = None
    /\ now = 0
    /\ sched = "none"

\* one hour passes
Tick ==
    /\ now < MaxHours
    /\ now' = now + 1
    /\ UNCHANGED <<sched, runVars, sharedVars, queueVars, guardVars, extVars,
                   collectVars, scoreVars, calcVars>>

\* some run calls set_rate_limited()
SetRateLimited ==
    /\ set_rate_limited
    /\ UNCHANGED <<cooldownVars, runVars, stop_requested, queueVars, guardVars, extVars,
                   collectVars, scoreVars, calcVars>>

\* clear_rate_limited(): remove the marker file
ClearRateLimited ==
    /\ rate_limited' = FALSE
    /\ rl_api_date' = None
    /\ UNCHANGED <<cooldownVars, runVars, stop_requested, queueVars, guardVars, extVars,
                   collectVars, scoreVars, calcVars>>

\* run_scheduled_batch.main(): return at once while is_rate_limited(), which
\* removes a marker of another API day; otherwise go on to the batch
Scheduled ==
    /\ IF is_rate_limited
       THEN /\ sched' = "skipped"
            /\ UNCHANGED markerVars
       ELSE /\ sched' = "proceeds"
            /\ rate_limited' = FALSE
            /\ rl_api_date' = None
    /\ UNCHANGED <<now, runVars, stop_requested, queueVars, guardVars, extVars,
                   collectVars, scoreVars, calcVars>>

NextCooldown == Tick \/ SetRateLimited \/ ClearRateLimited \/ Scheduled

(* ========================== BatchRunner.run =========================== *)
Sets == {"s1", "s2"}

BatchStats ==
    [total_cards |-> 0, processed |-> 0, succeeded |-> 0, failed |-> 0,
     skipped |-> 0, errors |-> <<>>, skipped_sets |-> <<>>,
     stopped_api_limit |-> FALSE, stopped_rate_limit |-> FALSE,
     stopped_consecutive_failures |-> FALSE]

\* worklists: all cards of set s1, except possibly one card of s2 at position p
Worklist(n, p) == [i \in 1..n |-> IF i = p THEN "s2" ELSE "s1"]
Worklists == {Worklist(n, p) : n \in {0, 3, MaxCards}, p \in {0, 2, MaxCards}}

StartCounts == {0, DefaultDailyLimit - 2, DefaultDailyLimit}

\* run() called directly (no callback), or by run_with_progress (a callback of
\* two parameters)
Callbacks == {"None", "run_with_progress"}
\* run() called by BatchQueue._process_item (a callback that takes the four
\* arguments)
QueueCallbacks == {"_process_item"}

\* no BatchRun row yet
NoBatchRun == [created |-> FALSE, finished_at |-> FALSE,
               cards_succeeded |-> 0, cards_failed |-> 0]

\* Card.error_count of the i-th card before the run: None, 0 or 3
StoredErrorCount(i) == CASE i % 3 = 0 -> None
                         [] i % 3 = 1 -> 0
                         [] OTHER -> 3

\* mutant: the limit itself is still admitted
_check_api_limit_strict(start, session) == start + session > DefaultDailyLimit

_check_api_limit(start, session) == start + session >= DefaultDailyLimit

is_stop_requested == stop_requested

InitRun ==
    /\ run_pc = "not_started"
    /\ cards = <<>>
    /\ starting_ebay_count = 0
    /\ session_call_count = 0
    /\ stats = BatchStats
    /\ set_failures = [s \in Sets |-> 0]
    /\ skipped_sets = {}
    /\ card_results = <<>>
    /\ progress_callback = "None"
    /\ progress_calls = <<>>
    /\ snapshots = <<>>
    /\ batch_run = NoBatchRun
    /\ error_count = <<>>
    /\ stop_requested = FALSE
    /\ rate_limited = FALSE

NoItem == [set_id |-> "none", status |-> "none", finished |-> FALSE, error |-> "None"]
NoRun == [pc |-> "none", idx |-> 0, ex |-> 0]
NoDispatcher == [pc |-> "unborn", todo |-> <<>>, ex |-> 0]
NoExecutor == [state |-> "none", cap |-> 0]

InitQueue ==
    /\ items = [i \in 1..MaxItems |-> NoItem]
    /\ q_queue = <<>>
    /\ q_executor = 0
    /\ executors = [e \in 1..MaxSpawn |-> NoExecutor]
    /\ max_workers = 1
    /\ q_stop = FALSE
    /\ dispatchers = [d \in 1..MaxSpawn |-> NoDispatcher]
    /\ runs = [i \in 1..MaxItems |-> NoRun]
    /\ db_429 = FALSE
    /\ stop_owed = {}

InitGuard ==
    /\ g_input = NoCall
    /\ g_result = GuardrailResult(None)

(* ==================== EbayWorker.collect_for_card ===================== *)
\* Amounts of this part are in cents.
\* an EbayItem: its price, its currency, and whether its title says "reverse"
ListingPrices == {-100, 0, 250}
Currencies == {"EUR", "USD"}
EbayItem == [price : ListingPrices, currency : Currencies, reverse : BOOLEAN]
\* EbayConfig.min_sample_size is read from the configuration as it is
MinSampleSizes == {0, 1, 2}

RECURSIVE ListingsUpTo(_)
ListingsUpTo(n) ==
    IF n = 0 THEN {<<>>}
    ELSE LET shorter == ListingsUpTo(n - 1)
         IN  shorter \cup {Append(s, e) : s \in {t \in shorter : Len(t) = n - 1}, e \in EbayItem}

\* _convert_to_eur: EUR as it is, USD at the rate 0.92
_convert_to_eur(amount, currency) ==
    IF currency = "EUR" THEN amount ELSE (amount * 92) \div 100

\* _is_reverse_item
_is_reverse_item(item) == item.reverse

RECURSIVE _normalize_prices(_)
\* _normalize_prices: the prices in EUR that are > 0, in the order of the items
_normalize_prices(found) ==
    IF found = <<>> THEN <<>>
    ELSE LET price_eur == _convert_to_eur(Head(found).price, Head(found).currency)
             rest == _normalize_prices(Tail(found))
         IN  IF price_eur > 0 THEN <<price_eur>> \o rest ELSE rest

\* PriceStats(): sample_size 0, raw_count 0, p20 None
PriceStats(sample_size, raw_count, p20) ==
    [present |-> TRUE, sample_size |-> sample_size, raw_count |-> raw_count, p20 |-> p20]
\* CollectionResult.stats = None
NoStats == [present |-> FALSE, sample_size |-> 0, raw_count |-> 0, p20 |-> None]

\* int(n * 0.05)
TrimCount(n) == (n * 5) \div 100

\* numpy.percentile(arr, 20), linear interpolation, truncated to the cent
Percentile20(arr) ==
    LET n == Len(arr)
        pos == 20 * (n - 1)
        k == pos \div 100
        frac == pos % 100
    IN  IF frac = 0 THEN arr[k + 1]
        ELSE (100 * arr[k + 1] + frac * (arr[k + 2] - arr[k + 1])) \div 100

\* _calculate_stats: trims 5% at each end of the sorted prices
_calculate_stats(prices, raw_count) ==
    IF prices = <<>> THEN PriceStats(0, raw_count, None)
    ELSE LET sorted_prices == SortSeq(prices, LAMBDA a, b : a < b)
             n == Len(sorted_prices)
             trim_bottom == TrimCount(n)
             trim_top == TrimCount(n)
             trimmed == IF trim_bottom + trim_top < n
                        THEN SubSeq(sorted_prices, trim_bottom + 1, n - trim_top)
                        ELSE sorted_prices
         IN  PriceStats(Len(trimmed), raw_count, Percentile20(trimmed))

\* result.items: for a card that is not REVERSE the normal listings, or the
\* reverse ones when there is no normal listing; for a REVERSE card all of them
ResultItems(found, is_reverse) ==
    IF is_reverse THEN found
    ELSE LET normal_items == SelectSeq(found, LAMBDA it : ~_is_reverse_item(it))
             reverse_items == SelectSeq(found, LAMBDA it : _is_reverse_item(it))
         IN  IF normal_items = <<>> /\ reverse_items # <<>> THEN reverse_items
             ELSE normal_items

\* collect_for_card on the listings that search_all returned (or on its exception)
CollectionResult(in) ==
    LET result_items == ResultItems(in.items, in.is_reverse)
        prices == _normalize_prices(result_items)
        result_stats == _calculate_stats(prices, Len(result_items))
    IN  IF in.search_raises
        THEN [success |-> FALSE, error |-> "Exception", stats |-> NoStats,
              anchor_price |-> None]
        ELSE IF result_items = <<>>
        THEN [success |-> FALSE, error |-> "No items found", stats |-> NoStats,
              anchor_price |-> None]
        ELSE IF Len(prices) < in.min_sample_size
        THEN [success |-> FALSE, error |-> "No valid prices after normalization",
              stats |-> PriceStats(Len(prices), Len(result_items), None),
              anchor_price |-> None]
        ELSE [success |-> TRUE, error |-> "None", stats |-> result_stats,
              anchor_price |-> result_stats.p20]

NoCollect == [called |-> FALSE, items |-> <<>>, is_reverse |-> FALSE,
              min_sample_size |-> 1, search_raises |-> FALSE]

(* ==================== ConfidenceScorer.calculate ====================== *)
\* A dispersion is in tenths, as in the guardrail; an anchor is an integer.
WEIGHT_SAMPLE_SIZE == 30
WEIGHT_DISPERSION == 25
WEIGHT_CARDMARKET == 15
WEIGHT_SOURCE == 20
WEIGHT_STABILITY == 10

SampleSizes == {None} \cup (0 .. MaxSample)
ScoredDispersions == {None} \cup (10 .. MaxDispersion)
AnchorSources == {"EBAY_ACTIVE", "CARDMARKET_FALLBACK", "LAST_KNOWN"}
PreviousAnchors == {None, 0, 10}
CurrentAnchors == {None, 4, 5, 7, 10, 11, 12, 13, 15, 16}

\* int(weight * 0.t), t tenths
IntShare(weight, t) == (weight * t) \div 10

\* the same with the division left out
_score_sample_size_scaled(sample_size) ==
    IF sample_size = None \/ sample_size = 0 THEN 0
    ELSE IF sample_size = 1 THEN WEIGHT_SAMPLE_SIZE * 5
    ELSE IF sample_size < 5 THEN WEIGHT_SAMPLE_SIZE * 6
    ELSE IF sample_size < 10 THEN WEIGHT_SAMPLE_SIZE * 7
    ELSE IF sample_size < 20 THEN WEIGHT_SAMPLE_SIZE * 8
    ELSE IF sample_size < 30 THEN WEIGHT_SAMPLE_SIZE * 9
    ELSE WEIGHT_SAMPLE_SIZE

_score_sample_size(sample_size) ==
    IF sample_size = None \/ sample_size = 0 THEN 0
    ELSE IF sample_size = 1 THEN IntShare(WEIGHT_SAMPLE_SIZE, 5)
    ELSE IF sample_size < 5 THEN IntShare(WEIGHT_SAMPLE_SIZE, 6)
    ELSE IF sample_size < 10 THEN IntShare(WEIGHT_SAMPLE_SIZE, 7)
    ELSE IF sample_size < 20 THEN IntShare(WEIGHT_SAMPLE_SIZE, 8)
    ELSE IF sample_size < 30 THEN IntShare(WEIGHT_SAMPLE_SIZE, 9)
    ELSE WEIGHT_SAMPLE_SIZE

\* the same with the order of the two worst bands exchanged
_score_dispersion_swapped(dispersion) ==
    IF dispersion = None THEN WEIGHT_DISPERSION \div 2
    ELSE IF dispersion <= 15 THEN WEIGHT_DISPERSION
    ELSE IF dispersion <= 20 THEN IntShare(WEIGHT_DISPERSION, 9)
    ELSE IF dispersion <= 30 THEN IntShare(WEIGHT_DISPERSION, 7)
    ELSE IF dispersion <= 40 THEN IntShare(WEIGHT_DISPERSION, 2)
    ELSE IntShare(WEIGHT_DISPERSION, 5)

_score_dispersion(dispersion) ==
    IF dispersion = None THEN WEIGHT_DISPERSION \div 2
    ELSE IF dispersion <= 15 THEN WEIGHT_DISPERSION
    ELSE IF dispersion <= 20 THEN IntShare(WEIGHT_DISPERSION, 9)
    ELSE IF dispersion <= 30 THEN IntShare(WEIGHT_DISPERSION, 7)
    ELSE IF dispersion <= 40 THEN IntShare(WEIGHT_DISPERSION, 5)
    ELSE IntShare(WEIGHT_DISPERSION, 2)

_score_source(source) ==
    IF source = "EBAY_ACTIVE" THEN WEIGHT_SOURCE
    ELSE IF source = "CARDMARKET_FALLBACK" THEN IntShare(WEIGHT_SOURCE, 6)
    ELSE IF source = "LAST_KNOWN" THEN IntShare(WEIGHT_SOURCE, 3)
    ELSE 0

Abs(x) == IF x < 0 THEN -x ELSE x

\* _calculate_variation(previous, current) <= pct, for a variation that is not None
VariationAtMost(previous, current, pct) == 100 * Abs(current - previous) <= pct * previous

_score_stability(previous, current) ==
    IF previous = None \/ current = None THEN WEIGHT_STABILITY \div 2
    ELSE IF previous <= 0 THEN WEIGHT_STABILITY \div 2
    ELSE IF VariationAtMost(previous, current, 10) THEN WEIGHT_STABILITY
    ELSE IF VariationAtMost(previous, current, 20) THEN IntShare(WEIGHT_STABILITY, 8)
    ELSE IF VariationAtMost(previous, current, 30) THEN IntShare(WEIGHT_STABILITY, 6)
    ELSE IF VariationAtMost(previous, current, 50) THEN IntShare(WEIGHT_STABILITY, 4)
    ELSE IntShare(WEIGHT_STABILITY, 1)

\* ConfidenceScorer.calculate: the ConfidenceFactors
calculate(sample_size, dispersion, has_cardmarket, anchor_source, previous_anchor, current_anchor) ==
    LET f == [sample_size_score |-> _score_sample_size(sample_size),
              dispersion_score |-> _score_dispersion(dispersion),
              cardmarket_available_score |-> IF has_cardmarket THEN WEIGHT_CARDMARKET ELSE 0,
              source_score |-> _score_source(anchor_source),
              stability_score |-> _score_stability(previous_anchor, current_anchor)]
    IN  [sample_size_score |-> f.sample_size_score,
         dispersion_score |-> f.dispersion_score,
         cardmarket_available_score |-> f.cardmarket_available_score,
         source_score |-> f.source_score,
         stability_score |-> f.stability_score,
         total |-> f.sample_size_score + f.dispersion_score
                   + f.cardmarket_available_score + f.source_score
                   + f.stability_score]

NoScore == [called |-> FALSE, sample_size |-> None, dispersion |-> None,
            has_cardmarket |-> FALSE, anchor_source |-> "EBAY_ACTIVE",
            previous_anchor |-> None, current_anchor |-> None]
\* ConfidenceFactors(): every score 0
ConfidenceFactors == [sample_size_score |-> 0, dispersion_score |-> 0,
                      cardmarket_available_score |-> 0, source_score |-> 0,
                      stability_score |-> 0, total |-> 0]

(* ====================== PriceCalculator.calculate ===================== *)
\* Prices are in cents, rates in thousandths, tier coefficients in
\* hundredths.  A value that is still to be clamped and rounded is an integer
\* together with its scale: the value is (integer / scale) cents.
PerMille == 1000
Hundredths == 100
\* PricingConfig, the defaults
margin_target == 270
fees_rate == 110
fixed_costs_eur == 50
risk_base == 20
risk_k1_dispersion == 20
risk_k2_supply == 10
risk_k3_low_sample == 50
risk_k4_fallback == 30
min_buy_price == 50
max_buy_price == 1000000
rounding_step == 10
coef_neuf == 100
coef_bon == 60
coef_correct == 30

\* anchors: every quarter of a euro up to the bound, the 20.00 of the worked
\* example, and one large enough to reach max_buy_price
PriceAnchors == {25 * k : k \in 1 .. MaxAnchorQuarters} \cup {2000, 1700000}
\* dispersions (tenths) and supplies whose clamped logarithm is exactly 0 or 2
RiskDispersions == {None, 10, 80}
ActiveCounts == {None, 0, 7000}
RiskSampleSizes == {None, 0, 1}
AgeMedianDays == {None, 10, 20, 40, 70}
ConsensusScores == {None, 30, 50, 70, 90}

\* min(max(math.log(dispersion), 0), 2) for a dispersion in tenths that is at
\* most 1.0 or at least 7.4 (e^2 < 7.4)
ClampedLogDispersion(dispersion) == IF dispersion >= 74 THEN 2 ELSE 0
\* min(max(math.log(1 + active_count / 1000), 0), 2) for a count that is 0 or
\* at least 6390 (e^2 - 1 < 6.39)
ClampedLogSupply(active_count) == IF active_count >= 6390 THEN 2 ELSE 0

\* calculate_risk: risk.total, in thousandths
calculate_risk(dispersion, active_count, sample_size, min_sample, anchor_source, age_median_days, consensus_score) ==
    LET dispersion_penalty ==
            IF dispersion # None /\ dispersion > 10
            THEN risk_k1_dispersion * ClampedLogDispersion(dispersion) ELSE 0
        supply_penalty ==
            IF active_count # None /\ active_count > 0
            THEN risk_k2_supply * ClampedLogSupply(active_count) ELSE 0
        low_sample_penalty ==
            IF sample_size # None /\ sample_size < min_sample
            THEN risk_k3_low_sample ELSE 0
        fallback_penalty ==
            IF anchor_source = "CARDMARKET_FALLBACK" THEN risk_k4_fallback
            ELSE IF anchor_source = "LAST_KNOWN" THEN (risk_k4_fallback * 15) \div 10
            ELSE 0
        consensus_adjustment ==
            IF consensus_score = None THEN 0
            ELSE IF consensus_score >= 80 THEN -20
            ELSE IF consensus_score >= 60 THEN 0
            ELSE IF consensus_score >= 40 THEN 30
            ELSE 50
        age_adjustment ==
            IF age_median_days = None THEN 0
            ELSE IF age_median_days > 60 THEN 50
            ELSE IF age_median_days > 30 THEN 30
            ELSE IF age_median_days > 14 THEN 10
            ELSE 0
    IN  risk_base + dispersion_penalty + supply_penalty + low_sample_penalty
        + fallback_penalty + consensus_adjustment + age_adjustment

\* the same without the risk
Multiplier_no_risk(risk_total) == PerMille - fees_rate - margin_target

\* multiplier = 1 - fees_rate - margin_target - risk_factors.total
Multiplier(risk_total) == PerMille - fees_rate - margin_target - risk_total

Min(a, b) == IF a < b THEN a ELSE b
Max(a, b) == IF a > b THEN a ELSE b

\* round(value / step) * step: the multiples of the step nearest to the value.
\* The quotient is a float; where the value is halfway between two multiples
\* the float quotient falls on either side, so both multiples are results.
RoundToStep(config, value, scale) ==
    LET unit == config.rounding_step * scale
        q == value \div unit
    IN  {c \in {q * config.rounding_step, (q + 1) * config.rounding_step} :
            2 * Abs(c * scale - value) <= unit}

\* _clamp_and_round: clamp to [min_buy_price, max_buy_price], then round
\* (a rounding_step > 0 is the only kind drawn)
_clamp_and_round(config, value, scale) ==
    RoundToStep(config,
                Min(Max(value, config.min_buy_price * scale),
                    config.max_buy_price * scale),
                scale)

\* PriceCalculator.calculate: the PriceCalculations it can return
PriceCalculation(in) ==
    LET risk_total == calculate_risk(in.dispersion, in.active_count, in.sample_size,
                                     in.min_sample_size, in.anchor_source,
                                     in.age_median_days, in.consensus_score)
        raw == in.anchor_price * Multiplier(risk_total) - fixed_costs_eur * PerMille
    IN  UNION { { [risk_total |-> risk_total, buy_base |-> b, buy_neuf |-> n,
                   buy_bon |-> g, buy_correct |-> c] :
                    n \in _clamp_and_round(in.config, b * coef_neuf, Hundredths),
                    g \in _clamp_and_round(in.config, b * coef_bon, Hundredths),
                    c \in _clamp_and_round(in.config, b * coef_correct, Hundredths) } :
                b \in _clamp_and_round(in.config, raw, PerMille) }

\* the PricingConfig defaults for the floor, the ceiling and the step
DefaultPricing == [min_buy_price |-> min_buy_price, max_buy_price |-> max_buy_price,
                   rounding_step |-> rounding_step]
\* configurations with min_buy_price <= max_buy_price and rounding_step > 0
\* (the step is 0.10 or 0.50)
PricingConfigs ==
    {cfg \in [min_buy_price : {min_buy_price, 52}, max_buy_price : {58, max_buy_price},
              rounding_step : {rounding_step, 50}] :
        cfg.min_buy_price <= cfg.max_buy_price /\ cfg.rounding_step > 0}

NoCalc == [called |-> FALSE, anchor_price |-> 0, dispersion |-> None,
           active_count |-> None, sample_size |-> None, min_sample_size |-> 1,
           anchor_source |-> "EBAY_ACTIVE", age_median_days |-> None,
           consensus_score |-> None, config |-> DefaultPricing]
NoPriceCalculation == [risk_total |-> 0, buy_base |-> 0, buy_neuf |-> 0,
                       buy_bon |-> 0, buy_correct |-> 0]

(* ======================== EbayClient.search_all ======================= *)
\* values of max_items
MaxItemsCaps == 1 .. MaxCap
\* a page response: its HTTP status, the total the marketplace reports, and the
\* number of its listings that search() keeps (parsed, title not excluded)
PageResponses(limit) ==
    [status : {200, 500}, total : 0 .. MaxTotal, kept : 0 .. limit]

NoSearchAll == [pc |-> "idle", max_items |-> 0, limit |-> 0, all_items |-> 0,
                offset |-> 0, total |-> 0, requests |-> 0, returned |-> 0]

(* ================== BatchRunner._get_cards_to_process ================= *)
\* Settings: the defaults
low_value_threshold == 10
low_value_refresh_days == 60
max_error_retries == 3
\* the error cooldown, in hours
error_cooldown_hours == 24

\* the latest snapshot of a card: its anchor_price (None for NULL) and the age
\* of its as_of_date in days; or no snapshot at all
NoSnapshot == [exists |-> FALSE, anchor_price |-> None, age_days |-> 0]
LatestSnapshots ==
    {NoSnapshot} \cup [exists : {TRUE}, anchor_price : {None, 5, 20}, age_days : {1, 100}]
\* Card.error_count and the age of Card.last_error_at in hours (None for NULL):
\* no error; errors counted by the HYBRID branch, which leaves last_error_at;
\* errors of the eBay collection
ErrorStates ==
    {[error_count |-> 0, last_error_hours |-> None],
     [error_count |-> 1, last_error_hours |-> None]}
    \cup [error_count : {1, max_error_retries}, last_error_hours : {1, 48}]
CardRows == [is_active : BOOLEAN, snapshot : LatestSnapshots, err : ErrorStates]
\* the cards table: rows 1..n
CardTables == UNION {[1 .. n -> CardRows] : n \in 1 .. MaxRows}
\* the limit argument (None: no limit)
Limits == {None, 1}

\* the WHERE clause of the priority query (a comparison with NULL is not true)
InWorklist(c) ==
    /\ c.is_active
    /\ \/ ~c.snapshot.exists
       \/ /\ c.err.error_count < max_error_retries
          /\ \/ c.err.last_error_hours = None
             \/ c.err.last_error_hours > error_cooldown_hours
       \/ /\ c.err.error_count >= max_error_retries
          /\ c.snapshot.exists /\ c.snapshot.age_days > low_value_refresh_days
       \/ /\ c.err.error_count < max_error_retries
          /\ c.snapshot.anchor_price # None
          /\ c.snapshot.anchor_price < low_value_threshold
          /\ c.snapshot.age_days > low_value_refresh_days
       \/ /\ c.err.error_count < max_error_retries
          /\ \/ c.snapshot.anchor_price = None
             \/ c.snapshot.anchor_price >= low_value_threshold

\* the CASE of the ORDER BY
Priority(c) ==
    IF ~c.snapshot.exists THEN 0
    ELSE IF c.err.error_count < max_error_retries /\ c.err.last_error_hours # None THEN 1
    ELSE IF c.err.error_count >= max_error_retries THEN 2
    ELSE IF c.snapshot.anchor_price # None /\ c.snapshot.anchor_price < low_value_threshold
    THEN 2
    ELSE 3

\* ORDER BY priority, as_of_date ASC NULLS FIRST: a comes no later than b
OrderedBefore(a, b) ==
    \/ Priority(a) < Priority(b)
    \/ /\ Priority(a) = Priority(b)
       /\ \/ ~a.snapshot.exists
          \/ (b.snapshot.exists /\ a.snapshot.age_days >= b.snapshot.age_days)

\* the lists query.all() can return: the selected rows in an order that agrees
\* with the ORDER BY (rows with equal keys in any order), cut to the limit
_get_cards_to_process(table, limit) ==
    LET selected == {i \in DOMAIN table : InWorklist(table[i])}
        n == Cardinality(selected)
        orders == {f \in [1 .. n -> selected] :
                      /\ \A i, j \in 1 .. n : i # j => f[i] # f[j]
                      /\ \A i, j \in 1 .. n :
                            i < j => OrderedBefore(table[f[i]], table[f[j]])}
    IN  {IF limit # None /\ limit < n THEN SubSeq(f, 1, limit) ELSE f : f \in orders}

NoWorklistCall == [called |-> FALSE, table |-> <<>>, limit |-> None]

\* the pool workers that run at the same time
RunnerIds == 1 .. MaxRunners
NoRunner == [pc |-> "none", starting_ebay_count |-> 0, session_call_count |-> 0,
             todo |-> 0]

\* no call made yet
InitPure ==
    /\ c_input = NoCollect /\ c_result = CollectionResult(NoCollect)
    /\ s_input = NoScore /\ s_result = ConfidenceFactors
    /\ p_input = NoCalc /\ p_result = NoPriceCalculation
    /\ paging = NoSearchAll
    /\ w_input = NoWorklistCall /\ w_result = <<>>
    /\ ebay_count = 0 /\ runners = [w \in RunnerIds |-> NoRunner]

Init == InitRun /\ InitQueue /\ InitGuard /\ InitCooldown /\ InitPure

\* request_stop(): any thread, any time
RequestStop ==
    /\ ~stop_requested
    /\ stop_requested' = TRUE
    /\ UNCHANGED <<runVars, markerVars, queueVars, guardVars, extVars, auxVars>>

\* run(), up to the loop: observe the eBay counter, admit or refuse the run,
\* build the worklist, clear the stop flag
StartRunWith(callbacks) ==
    /\ run_pc = "not_started"
    /\ \E start \in StartCounts, w \in Worklists, cb \in callbacks :
          /\ starting_ebay_count' = start
          /\ session_call_count' = 0
          /\ progress_callback' = cb
          /\ progress_calls' = <<>>
          /\ snapshots' = <<>>
          /\ IF _check_api_limit(start, 0)
             THEN /\ stats' = [stats EXCEPT !.stopped_api_limit = TRUE]
                  /\ run_pc' = "done"
                  /\ UNCHANGED <<cards, stop_requested, batch_run, error_count>>
             ELSE /\ cards' = w
                  /\ error_count' = [i \in 1..Len(w) |-> StoredErrorCount(i)]
                  /\ batch_run' = [NoBatchRun EXCEPT !.created = TRUE]
                  /\ stats' = [stats EXCEPT !.total_cards = Len(w)]
                  /\ stop_requested' = FALSE
                  /\ run_pc' = "loop"
    /\ UNCHANGED <<set_failures, skipped_sets, card_results, markerVars>>
    /\ UNCHANGED <<queueVars, guardVars, extVars, auxVars>>

\* run() from the command line or the scheduled script
StartRun == StartRunWith(Callbacks)
\* run() from a worker of the queue
StartQueuedRun == StartRunWith(QueueCallbacks)

\* What the marketplace and the pipeline do with one card:
\*   kind      result of _process_card         calls
\*   ok1/ok2   "success"                       1 / 2 (a second page or a 401 retry)
\*   noitems   "failed", No items found        1
\*   fewprices "failed", No valid prices after normalization   1
\*   noquery   "failed", No eBay query defined 0
\*   http429   search answered 429             1
\*   exc       an exception outside the Collector (database, snapshot)  0
Kinds == {"ok1", "ok2", "noitems", "fewprices", "noquery", "http429", "exc"}
Calls(k) == CASE k = "ok2" -> 2
              [] k \in {"noquery", "exc"} -> 0
              [] OTHER -> 1

\* EbayClient.search: any status other than 200 raises EbayAPIError
search(k) == IF k = "http429" THEN "EbayAPIError" ELSE "response"

\* EbayWorker.collect_for_card: every exception of the search is caught and
\* becomes a failed CollectionResult carrying str(e)
collect_for_card(k) ==
    CASE k = "noquery" -> [success |-> FALSE, error |-> "No eBay query defined", raised |-> "None"]
      [] search(k) = "EbayAPIError" -> [success |-> FALSE, error |-> "Search failed: 429", raised |-> "None"]
      [] k = "noitems" -> [success |-> FALSE, error |-> "No items found", raised |-> "None"]
      [] k = "fewprices" -> [success |-> FALSE, error |-> "No valid prices after normalization",
                             raised |-> "None"]
      [] OTHER -> [success |-> TRUE, error |-> "None", raised |-> "None"]

\* BatchRunner._process_card: "success" | "failed", or the exception raised
_process_card(k) ==
    IF k = "exc" THEN [result |-> "raise", error |-> "Exception"]
    ELSE LET r == collect_for_card(k)
         IN  IF r.raised # "None" THEN [result |-> "raise", error |-> r.raised]
             ELSE IF r.success THEN [result |-> "success", error |-> "None"]
             ELSE [result |-> "failed", error |-> r.error]

\* the snapshot that _process_card adds to the session for a card whose
\* collection succeeded: collect_for_card has searched and computed the
\* statistics, create_snapshot copies them, apply_to_snapshot writes the
\* guardrail's final anchor and source; nothing sets confidence_score
MarketSnapshot(i) ==
    [card |-> i, stages |-> <<"Collector", "Statistics", "Guardrail">>,
     post_guardrail |-> TRUE, confidence_score |-> None]

Specials == Len(SelectSeq(card_results,
                LAMBDA r : ~(r.status = "failed" /\ r.error = "No items found")
                           /\ r.status # "skipped"))

\* mutant: the set is given up one failure too late
FailSet_late(s, errs) ==
    LET n == set_failures[s] + 1
    IN  /\ set_failures' = [set_failures EXCEPT ![s] = n]
        /\ IF n > MAX_SET_FAILURES
           THEN /\ skipped_sets' = skipped_sets \cup {s}
                /\ stats' = [stats EXCEPT !.failed = @ + 1, !.processed = @ + 1,
                                          !.errors = errs,
                                          !.skipped_sets = Append(@, s)]
           ELSE /\ skipped_sets' = skipped_sets
                /\ stats' = [stats EXCEPT !.failed = @ + 1, !.processed = @ + 1,
                                          !.errors = errs]

FailSet_uncounted(s, errs) ==
    LET n == set_failures[s] + 1
    IN  /\ set_failures' = [set_failures EXCEPT ![s] = n]
        /\ IF n >= MAX_SET_FAILURES
           THEN /\ skipped_sets' = skipped_sets \cup {s}
                /\ stats' = [stats EXCEPT !.processed = @ + 1, !.errors = errs,
                                          !.skipped_sets = Append(@, s)]
           ELSE /\ skipped_sets' = skipped_sets
                /\ stats' = [stats EXCEPT !.processed = @ + 1, !.errors = errs]

\* the failure bookkeeping of a set after one more failed card (errs: stats.errors
\* after it)
FailSet(s, errs) ==
    LET n == set_failures[s] + 1
    IN  /\ set_failures' = [set_failures EXCEPT ![s] = n]
        /\ IF n >= MAX_SET_FAILURES
           THEN /\ skipped_sets' = skipped_sets \cup {s}
                /\ stats' = [stats EXCEPT !.failed = @ + 1, !.processed = @ + 1,
                                          !.errors = errs,
                                          !.skipped_sets = Append(@, s)]
           ELSE /\ skipped_sets' = skipped_sets
                /\ stats' = [stats EXCEPT !.failed = @ + 1, !.processed = @ + 1,
                                          !.errors = errs]

\* the end of an iteration that did not "continue" or "break": the counts are
\* committed to the BatchRun every 5 cards and after the last one; then
\* progress_callback(processed, total, succeeded, failed) is called, outside the
\* try. The callback of run_with_progress takes two parameters: the call raises
\* TypeError, which leaves run() (the session is rolled back and closed).
EndOfIteration ==
    /\ progress_calls' = IF progress_callback = "_process_item"
                         THEN Append(progress_calls, stats'.processed)
                         ELSE progress_calls
    /\ batch_run' = IF stats'.processed % 5 = 0 \/ stats'.processed = stats'.total_cards
                    THEN [batch_run EXCEPT !.cards_succeeded = stats'.succeeded,
                                           !.cards_failed = stats'.failed]
                    ELSE batch_run
    /\ run_pc' = IF progress_callback = "run_with_progress" THEN "raised" ELSE "loop"

\* mutant: the stored count is used as it is
CountError_raw(i) ==
    [error_count EXCEPT ![i] = @ + 1]

\* card.error_count after _process_card: (error_count or 0) + 1 on a Collector
\* failure, 0 on a success
CountError(i) ==
    [error_count EXCEPT ![i] = (IF @ = None THEN 0 ELSE @) + 1]

\* one iteration of the loop over the worklist
RunItem ==
    /\ run_pc = "loop"
    /\ LET i == Len(card_results) + 1 IN
       IF i > Len(cards) \/ is_stop_requested
       THEN /\ run_pc' = "finalize"
            /\ UNCHANGED <<session_call_count, stats, set_failures, skipped_sets,
                           card_results, markerVars, batch_run, error_count,
                           progress_calls, snapshots>>
       ELSE IF _check_api_limit(starting_ebay_count, session_call_count)
       THEN /\ stats' = [stats EXCEPT !.stopped_api_limit = TRUE]
            /\ run_pc' = "finalize"
            /\ UNCHANGED <<session_call_count, set_failures, skipped_sets,
                           card_results, markerVars, batch_run, error_count,
                           progress_calls, snapshots>>
       ELSE IF cards[i] \in skipped_sets
       THEN /\ stats' = [stats EXCEPT !.skipped = @ + 1, !.processed = @ + 1]
            /\ card_results' = Append(card_results,
                                  [status |-> "skipped", error |-> "Set ignore"])
            /\ UNCHANGED <<run_pc, session_call_count, set_failures, skipped_sets,
                           markerVars, batch_run, error_count, progress_calls,
                           snapshots>>
       ELSE \E k \in Kinds :
            /\ k = "noitems" \/ Specials < MaxSpecial
            /\ session_call_count' = session_call_count + Calls(k)
            /\ LET r == _process_card(k) IN
               CASE r.result = "success" ->
                      /\ stats' = [stats EXCEPT !.succeeded = @ + 1, !.processed = @ + 1]
                      /\ set_failures' = [set_failures EXCEPT ![cards[i]] = 0]
                      /\ error_count' = [error_count EXCEPT ![i] = 0]
                      /\ card_results' = Append(card_results,
                                            [status |-> "success", error |-> "None"])
                      /\ snapshots' = Append(snapshots, MarketSnapshot(i))
                      /\ EndOfIteration
                      /\ UNCHANGED <<skipped_sets, markerVars>>
                 [] r.result = "failed" ->
                      /\ FailSet(cards[i], stats.errors)
                      /\ error_count' = CountError(i)
                      /\ card_results' = Append(card_results,
                                            [status |-> "failed", error |-> r.error])
                      /\ EndOfIteration
                      /\ UNCHANGED <<markerVars, snapshots>>
                 [] r.result = "raise" /\ r.error = "EbayRateLimitError" ->
                      /\ set_rate_limited
                      /\ stats' = [stats EXCEPT !.stopped_rate_limit = TRUE]
                      /\ card_results' = Append(card_results,
                                            [status |-> "failed", error |-> "Erreur 429"])
                      /\ run_pc' = "finalize"
                      /\ UNCHANGED <<set_failures, skipped_sets, batch_run, error_count,
                                     progress_calls, snapshots>>
                 [] OTHER ->
                      /\ FailSet(cards[i], Append(stats.errors, <<i, r.error>>))
                      /\ card_results' = Append(card_results,
                                            [status |-> "failed", error |-> r.error])
                      /\ EndOfIteration
                      /\ UNCHANGED <<markerVars, error_count, snapshots>>
    /\ UNCHANGED <<cards, starting_ebay_count, stop_requested, progress_callback>>
    /\ UNCHANGED <<queueVars, guardVars, extVars, auxVars>>

\* after the loop: finalize the BatchRun (finished_at, final counts) and return
Finalize ==
    /\ run_pc = "finalize"
    /\ run_pc' = "done"
    /\ batch_run' = [batch_run EXCEPT !.finished_at = TRUE,
                                      !.cards_succeeded = stats.succeeded,
                                      !.cards_failed = stats.failed]
    /\ UNCHANGED <<cards, starting_ebay_count, session_call_count, stats,
                   set_failures, skipped_sets, card_results, progress_callback,
                   progress_calls, snapshots, error_count>>
    /\ UNCHANGED <<sharedVars, queueVars, guardVars, extVars, auxVars>>

NextRun == StartRun \/ RunItem \/ Finalize \/ RequestStop
SpecRun == Init /\ [][NextRun]_vars

NextQueuedRun == StartQueuedRun \/ RunItem \/ Finalize \/ RequestStop
SpecQueuedRun == Init /\ [][NextQueuedRun]_vars

NextGuard == Check
SpecGuard == Init /\ [][NextGuard]_vars

SpecCooldown == Init /\ [][NextCooldown]_vars

\* one call of collect_for_card, on any listing set and any configured minimum
\* (the function keeps no state between calls: each call is explored once)
Collect ==
    /\ ~c_input.called
    /\ \E found \in ListingsUpTo(MaxListings), rev \in BOOLEAN,
          m \in MinSampleSizes, exc \in BOOLEAN :
          /\ c_input' = [called |-> TRUE, items |-> found, is_reverse |-> rev,
                         min_sample_size |-> m, search_raises |-> exc]
          /\ c_result' = CollectionResult(c_input')
    /\ UNCHANGED <<runVars, sharedVars, queueVars, guardVars, extVars, cooldownVars,
                   scoreVars, calcVars>>

NextCollect == Collect
SpecCollect == Init /\ [][NextCollect]_vars

\* one call of ConfidenceScorer.calculate, on any input tuple
\* (the scorer keeps no state between calls: each call is explored once)
Score ==
    /\ ~s_input.called
    /\ \E n \in SampleSizes, d \in ScoredDispersions, cm \in BOOLEAN,
          src \in AnchorSources, prev \in PreviousAnchors, cur \in CurrentAnchors :
          /\ s_input' = [called |-> TRUE, sample_size |-> n, dispersion |-> d,
                         has_cardmarket |-> cm, anchor_source |-> src,
                         previous_anchor |-> prev, current_anchor |-> cur]
          /\ s_result' = calculate(n, d, cm, src, prev, cur)
    /\ UNCHANGED <<runVars, sharedVars, queueVars, guardVars, extVars, cooldownVars,
                   collectVars, calcVars>>

NextScore == Score
SpecScore == Init /\ [][NextScore]_vars

\* one call of PriceCalculator.calculate, on any anchor and any market data
\* (the calculator keeps no state between calls: each call is explored once)
Calculate ==
    /\ ~p_input.called
    /\ \E a \in PriceAnchors, d \in RiskDispersions, n \in ActiveCounts,
          k \in RiskSampleSizes, m \in MinSampleSizes, src \in AnchorSources,
          age \in AgeMedianDays, cs \in ConsensusScores :
          /\ p_input' = [called |-> TRUE, anchor_price |-> a, dispersion |-> d,
                         active_count |-> n, sample_size |-> k, min_sample_size |-> m,
                         anchor_source |-> src, age_median_days |-> age,
                         consensus_score |-> cs, config |-> DefaultPricing]
          /\ p_result' \in PriceCalculation(p_input')
    /\ UNCHANGED <<runVars, sharedVars, queueVars, guardVars, extVars, cooldownVars,
                   collectVars, scoreVars>>

NextCalculate == Calculate
SpecCalculate == Init /\ [][NextCalculate]_vars

\* one call of PriceCalculator.calculate under any configuration of the floor,
\* the ceiling and the step, on any anchor
CalculateConfigured ==
    /\ ~p_input.called
    /\ \E cfg \in PricingConfigs, a \in PriceAnchors, src \in AnchorSources,
          age \in AgeMedianDays :
          /\ p_input' = [called |-> TRUE, anchor_price |-> a, dispersion |-> None,
                         active_count |-> None, sample_size |-> None,
                         min_sample_size |-> 1, anchor_source |-> src,
                         age_median_days |-> age, consensus_score |-> None,
                         config |-> cfg]
          /\ p_result' \in PriceCalculation(p_input')
    /\ UNCHANGED <<runVars, sharedVars, queueVars, guardVars, extVars, cooldownVars,
                   collectVars, scoreVars>>

NextConfigured == CalculateConfigured
SpecConfigured == Init /\ [][NextConfigured]_vars

(* ---- EbayClient.search_all ---- *)
\* search_all(query, max_items): all_items = [], offset = 0, limit = min(max_items, 200)
SearchAll ==
    /\ paging.pc = "idle"
    /\ \E m \in MaxItemsCaps :
          paging' = [NoSearchAll EXCEPT !.pc = "loop", !.max_items = m,
                                        !.limit = Min(m, 200)]
    /\ UNCHANGED <<runVars, sharedVars, queueVars, guardVars, auxVars, worklistVars,
                   poolVars>>

\* one turn of `while len(all_items) < max_items`: a page is requested; a status
\* other than 200 raises out of search_all; a page that keeps no listing ends
\* the loop; otherwise the listings are added, the offset advances by limit,
\* and the loop ends when the offset has reached the total
SearchPage ==
    /\ paging.pc = "loop"
    /\ IF ~(paging.all_items < paging.max_items)
       THEN paging' = [paging EXCEPT !.pc = "returned",
                                     !.returned = Min(paging.all_items, paging.max_items)]
       ELSE \E r \in PageResponses(paging.limit) :
            IF r.status # 200
            THEN paging' = [paging EXCEPT !.pc = "raised", !.requests = @ + 1]
            ELSE IF r.kept = 0
            THEN paging' = [paging EXCEPT !.pc = "returned", !.requests = @ + 1,
                                          !.total = r.total,
                                          !.returned = Min(paging.all_items, paging.max_items)]
            ELSE LET n == paging.all_items + r.kept
                     o == paging.offset + paging.limit
                 IN  paging' = [paging EXCEPT
                                   !.requests = @ + 1, !.total = r.total,
                                   !.all_items = n, !.offset = o,
                                   !.pc = IF o >= r.total THEN "returned" ELSE "loop",
                                   !.returned = IF o >= r.total
                                                THEN Min(n, paging.max_items) ELSE 0]
    /\ UNCHANGED <<runVars, sharedVars, queueVars, guardVars, auxVars, worklistVars,
                   poolVars>>

NextSearchAll == SearchAll \/ SearchPage
SpecSearchAll == Init /\ [][NextSearchAll]_vars

\* one call of _get_cards_to_process in priority mode, on any cards table
GetCardsToProcess ==
    /\ ~w_input.called
    /\ \E table \in CardTables, limit \in Limits :
          /\ w_input' = [called |-> TRUE, table |-> table, limit |-> limit]
          /\ w_result' \in _get_cards_to_process(table, limit)
    /\ UNCHANGED <<runVars, sharedVars, queueVars, guardVars, auxVars, pageVars,
                   poolVars>>

NextWorklist == GetCardsToProcess
SpecWorklist == Init /\ [][NextWorklist]_vars

(* ---- the runs of several pool workers, each with its own BatchRunner ---- *)
\* the calls already made today when the workers start
EarlierCalls ==
    /\ ebay_count = 0
    /\ \A w \in RunnerIds : runners[w].pc = "none"
    /\ ebay_count' \in {DefaultDailyLimit - MaxTodo, DefaultDailyLimit - 1}
    /\ UNCHANGED <<runners, runVars, sharedVars, queueVars, guardVars, auxVars,
                   pageVars, worklistVars>>

\* _process_item creates a BatchRunner of its own and calls run(): the runner
\* reads the marketplace's counter into its _starting_ebay_count, zeroes its
\* _session_call_count, and refuses to start at the limit
RunnerStart(w) ==
    /\ runners[w].pc = "none"
    /\ \E n \in 1 .. MaxTodo :
          runners' = [runners EXCEPT ![w] =
                        [pc |-> IF _check_api_limit(ebay_count, 0) THEN "done" ELSE "loop",
                         starting_ebay_count |-> ebay_count,
                         session_call_count |-> 0,
                         todo |-> n]]
    /\ UNCHANGED <<ebay_count, runVars, sharedVars, queueVars, guardVars, auxVars,
                   pageVars, worklistVars>>

\* one iteration of a runner's loop: the admission check on its own two
\* counters, then one card, whose search is one call (_on_api_call adds it to
\* this runner's _session_call_count; the marketplace counts it)
RunnerItem(w) ==
    /\ runners[w].pc = "loop"
    /\ IF runners[w].todo = 0
       THEN /\ runners' = [runners EXCEPT ![w].pc = "done"]
            /\ UNCHANGED ebay_count
       ELSE IF _check_api_limit(runners[w].starting_ebay_count,
                                runners[w].session_call_count)
       THEN /\ runners' = [runners EXCEPT ![w].pc = "done"]
            /\ UNCHANGED ebay_count
       ELSE /\ runners' = [runners EXCEPT ![w].session_call_count = @ + 1,
                                          ![w].todo = @ - 1]
            /\ ebay_count' = ebay_count + 1
    /\ UNCHANGED <<runVars, sharedVars, queueVars, guardVars, auxVars,
                   pageVars, worklistVars>>

NextRunners == EarlierCalls \/ \E w \in RunnerIds : RunnerStart(w) \/ RunnerItem(w)
SpecRunners == Init /\ [][NextRunners]_vars

(* ============================ BatchQueue ============================== *)
PENDING == "pending"
RUNNING == "running"
COMPLETED == "completed"
FAILED == "failed"
CANCELLED == "cancelled"

ItemIds == 1..MaxItems
SpawnIds == 1..MaxSpawn
\* arguments of set_max_workers / add_multiple
WorkerInputs == {0, 11}


NItems == Cardinality({i \in ItemIds : items[i].status # "none"})
NSpawned == Cardinality({d \in SpawnIds : dispatchers[d].pc # "unborn"})
Listed(i) == \E k \in 1..Len(q_queue) : q_queue[k] = i

\* the listed items having one of the statuses, in list order
WithStatus(sts) == SelectSeq(q_queue, LAMBDA i : items[i].status \in sts)

\* set_max_workers: clamp to 1..10
set_max_workers(n) == Max(1, Min(n, 10))

SetMaxWorkers ==
    /\ \E n \in WorkerInputs : max_workers' = set_max_workers(n)
    /\ UNCHANGED <<items, q_queue, q_executor, executors, q_stop, dispatchers, runs,
                   db_429, stop_owed>>
    /\ UNCHANGED <<runVars, sharedVars, guardVars, extVars, auxVars>>

\* _ensure_workers_running: with no executor, clear the stop Event, create an
\* executor of max_workers threads and start a dispatcher thread
_ensure_workers_running ==
    IF q_executor # 0
    THEN UNCHANGED <<q_stop, executors, q_executor, dispatchers>>
    ELSE LET e == NSpawned + 1 IN
         /\ e <= MaxSpawn
         /\ q_stop' = FALSE
         /\ executors' = [executors EXCEPT ![e] = [state |-> "active", cap |-> max_workers]]
         /\ q_executor' = e
         /\ dispatchers' = [dispatchers EXCEPT ![e] = [pc |-> "loop", todo |-> <<>>, ex |-> 0]]

\* add(set_id): an item of that set already waiting is returned as it is;
\* otherwise a new item is appended and the pool is started if there is none
Add ==
    /\ \E s \in Sets :
         IF \E k \in 1..Len(q_queue) :
                items[q_queue[k]].set_id = s /\ items[q_queue[k]].status = PENDING
         THEN UNCHANGED <<items, q_queue, q_stop, executors, q_executor, dispatchers>>
         ELSE LET n == NItems + 1 IN
              /\ n <= MaxItems
              /\ items' = [items EXCEPT ![n] = [NoItem EXCEPT !.set_id = s,
                                                              !.status = PENDING]]
              /\ q_queue' = Append(q_queue, n)
              /\ _ensure_workers_running
    /\ UNCHANGED <<max_workers, runs, db_429, stop_owed>>
    /\ UNCHANGED <<runVars, sharedVars, guardVars, extVars, auxVars>>

\* the runs that are in their loop over the cards
InLoop == {i \in ItemIds : runs[i].pc = "loop"}

\* stop(): set both stop flags, shut the executor down without waiting, drop it
Stop ==
    /\ ~q_stop
    /\ q_stop' = TRUE
    /\ stop_requested' = TRUE
    /\ stop_owed' = stop_owed \cup InLoop
    /\ IF q_executor # 0
       THEN /\ executors' = [executors EXCEPT ![q_executor].state = "shutdown"]
            /\ q_executor' = 0
       ELSE UNCHANGED <<executors, q_executor>>
    /\ UNCHANGED <<items, q_queue, max_workers, dispatchers, runs, db_429>>
    /\ UNCHANGED <<runVars, markerVars, guardVars, extVars, auxVars>>

ClearPending ==
    /\ q_queue' = SelectSeq(q_queue, LAMBDA i : items[i].status # PENDING)
    /\ q_queue' # q_queue
    /\ UNCHANGED <<items, q_executor, executors, max_workers, q_stop, dispatchers,
                   runs, db_429, stop_owed>>
    /\ UNCHANGED <<runVars, sharedVars, guardVars, extVars, auxVars>>

(* ---- _dispatcher_loop, one thread per started pool ---- *)
\* mutant: the newest waiting items are taken first
PendingSlice_newest(pending, slots) ==
    IF slots > 0 /\ Len(pending) > 0
    THEN SubSeq(pending, Max(1, Len(pending) - slots + 1), Len(pending))
    ELSE <<>>

\* pending_items[:slots_available], empty without a free slot
PendingSlice(pending, slots) ==
    IF slots > 0 /\ Len(pending) > 0
    THEN SubSeq(pending, 1, Min(slots, Len(pending)))
    ELSE <<>>

\* loop head: leave on a stop; otherwise count the running items, list the
\* waiting ones (under the lock) and take as many as there are free slots
DispatcherScan(d) ==
    /\ dispatchers[d].pc = "loop"
    /\ IF q_stop
       THEN dispatchers' = [dispatchers EXCEPT ![d].pc = "cleanup"]
       ELSE LET running_count == Len(WithStatus({RUNNING}))
                pending_items == WithStatus({PENDING})
                slots_available == max_workers - running_count
            IN  dispatchers' = [dispatchers EXCEPT
                                  ![d].pc = "launch",
                                  ![d].todo = PendingSlice(pending_items, slots_available)]
    /\ UNCHANGED <<items, q_queue, q_executor, executors, max_workers, q_stop, runs,
                   db_429, stop_owed>>
    /\ UNCHANGED <<runVars, sharedVars, guardVars, extVars, auxVars>>

\* one turn of "for item in pending_items[:slots_available]": under the lock, an
\* item still PENDING becomes RUNNING and is submitted to self._executor; with
\* no executor (None) or a shut down one the submit raises and the thread dies
DispatcherLaunch(d) ==
    /\ dispatchers[d].pc = "launch"
    /\ dispatchers[d].todo # <<>>
    /\ LET i == Head(dispatchers[d].todo) IN
       IF items[i].status # PENDING
       THEN /\ dispatchers' = [dispatchers EXCEPT ![d].todo = Tail(@)]
            /\ UNCHANGED <<items, runs>>
       ELSE /\ items' = [items EXCEPT ![i].status = RUNNING]
            /\ IF q_executor = 0 \/ executors[q_executor].state # "active"
               THEN /\ dispatchers' = [dispatchers EXCEPT ![d].pc = "crashed",
                                                          ![d].todo = <<>>]
                    /\ UNCHANGED runs
               ELSE /\ dispatchers' = [dispatchers EXCEPT ![d].todo = Tail(@)]
                    /\ runs' = [runs EXCEPT ![i] = [NoRun EXCEPT !.pc = "queued",
                                                               !.ex = q_executor]]
    /\ UNCHANGED <<q_queue, q_executor, executors, max_workers, q_stop, db_429, stop_owed>>
    /\ UNCHANGED <<runVars, sharedVars, guardVars, extVars, auxVars>>

\* after the for loop: with no PENDING or RUNNING item listed leave the loop,
\* otherwise sleep and go round again
DispatcherCheck(d) ==
    /\ dispatchers[d].pc = "launch"
    /\ dispatchers[d].todo = <<>>
    /\ LET has_work == WithStatus({PENDING, RUNNING}) # <<>> IN
       dispatchers' = [dispatchers EXCEPT
                         ![d].pc = IF has_work THEN "loop" ELSE "cleanup"]
    /\ UNCHANGED <<items, q_queue, q_executor, executors, max_workers, q_stop, runs,
                   db_429, stop_owed>>
    /\ UNCHANGED <<runVars, sharedVars, guardVars, extVars, auxVars>>

\* "if self._executor: self._executor.shutdown(wait=True)": begin the shutdown
DispatcherCleanup(d) ==
    /\ dispatchers[d].pc = "cleanup"
    /\ IF q_executor # 0
       THEN /\ executors' = [executors EXCEPT ![q_executor].state = "shutdown"]
            /\ dispatchers' = [dispatchers EXCEPT ![d].pc = "wait", ![d].ex = q_executor]
       ELSE /\ dispatchers' = [dispatchers EXCEPT ![d].pc = "cancel"]
            /\ UNCHANGED executors
    /\ UNCHANGED <<items, q_queue, q_executor, max_workers, q_stop, runs, db_429, stop_owed>>
    /\ UNCHANGED <<runVars, sharedVars, guardVars, extVars, auxVars>>

\* shutdown(wait=True) returns once every task of that executor has ended; then
\* self._executor = None
DispatcherJoin(d) ==
    /\ dispatchers[d].pc = "wait"
    /\ \A i \in ItemIds : runs[i].ex = dispatchers[d].ex => runs[i].pc = "done"
    /\ q_executor' = 0
    /\ dispatchers' = [dispatchers EXCEPT ![d].pc = "cancel"]
    /\ UNCHANGED <<items, q_queue, executors, max_workers, q_stop, runs, db_429, stop_owed>>
    /\ UNCHANGED <<runVars, sharedVars, guardVars, extVars, auxVars>>

\* on a requested stop the listed PENDING items become CANCELLED; the thread ends
DispatcherCancel(d) ==
    /\ dispatchers[d].pc = "cancel"
    /\ IF q_stop
       THEN items' = [i \in ItemIds |->
                        IF Listed(i) /\ items[i].status = PENDING
                        THEN [items[i] EXCEPT !.status = CANCELLED] ELSE items[i]]
       ELSE UNCHANGED items
    /\ dispatchers' = [dispatchers EXCEPT ![d].pc = "dead"]
    /\ UNCHANGED <<q_queue, q_executor, executors, max_workers, q_stop, runs, db_429, stop_owed>>
    /\ UNCHANGED <<runVars, sharedVars, guardVars, extVars, auxVars>>

(* ---- _process_item, in a thread of the pool ---- *)
\* tasks of executor e that a pool thread is running
Busy(e) == Cardinality({i \in ItemIds : runs[i].ex = e /\ runs[i].pc = "loop"})

\* a pool thread takes the task: BatchRunner().run(set_id=...) up to its loop,
\* which clears the runner's stop flag
WorkerStart(i) ==
    /\ runs[i].pc = "queued"
    /\ Busy(runs[i].ex) < executors[runs[i].ex].cap
    /\ runs' = [runs EXCEPT ![i].pc = "loop"]
    /\ stop_requested' = FALSE
    /\ UNCHANGED <<items, q_queue, q_executor, executors, max_workers, q_stop,
                   dispatchers, db_429, stop_owed>>
    /\ UNCHANGED <<runVars, markerVars, guardVars, extVars, auxVars>>

\* run() raises (database, configuration): the item is FAILED
WorkerRaise(i) ==
    /\ runs[i].pc = "queued"
    /\ Busy(runs[i].ex) < executors[runs[i].ex].cap
    /\ runs' = [runs EXCEPT ![i].pc = "done"]
    /\ items' = [items EXCEPT ![i].status = FAILED, ![i].finished = TRUE,
                              ![i].error = "Exception"]
    /\ UNCHANGED <<q_queue, q_executor, executors, max_workers, q_stop, dispatchers,
                   db_429, stop_owed>>
    /\ UNCHANGED <<runVars, sharedVars, guardVars, extVars, auxVars>>

\* one iteration of the run's loop: on a requested stop or after the last card
\* the run returns and the item is COMPLETED; otherwise one card is processed.
\* A 429 answer for that card is recorded on the card as an ordinary failure.
WorkerItem(i) ==
    /\ runs[i].pc = "loop"
    /\ IF runs[i].idx >= CardsPerSet \/ is_stop_requested
       THEN /\ runs' = [runs EXCEPT ![i].pc = "done"]
            /\ items' = [items EXCEPT ![i].status = COMPLETED, ![i].finished = TRUE]
            /\ stop_owed' = stop_owed \ {i}
            /\ UNCHANGED db_429
       ELSE /\ runs' = [runs EXCEPT ![i].idx = @ + 1]
            /\ \E k \in {"ok1", "http429"} :
                 db_429' = (db_429 \/ collect_for_card(k).error = "Search failed: 429")
            /\ UNCHANGED <<items, stop_owed>>
    /\ UNCHANGED <<q_queue, q_executor, executors, max_workers, q_stop, dispatchers>>
    /\ UNCHANGED <<runVars, sharedVars, guardVars, extVars, auxVars>>

NextQueue ==
    \/ Add
    \/ SetMaxWorkers
    \/ Stop
    \/ ClearPending
    \/ \E d \in SpawnIds : DispatcherScan(d)
    \/ \E d \in SpawnIds : DispatcherLaunch(d)
    \/ \E d \in SpawnIds : DispatcherCheck(d)
    \/ \E d \in SpawnIds : DispatcherCleanup(d)
    \/ \E d \in SpawnIds : DispatcherJoin(d)
    \/ \E d \in SpawnIds : DispatcherCancel(d)
    \/ \E i \in ItemIds : WorkerStart(i)
    \/ \E i \in ItemIds : WorkerRaise(i)
    \/ \E i \in ItemIds : WorkerItem(i)

SpecQueue == Init /\ [][NextQueue]_vars

(* ---- add() against the threads alone, the threads scheduled fairly ---- *)
\* the steps of dispatcher thread d
Dispatcher(d) ==
    \/ DispatcherScan(d) \/ DispatcherLaunch(d) \/ DispatcherCheck(d)
    \/ DispatcherCleanup(d) \/ DispatcherJoin(d) \/ DispatcherCancel(d)

\* the steps of the pool task of item i
Worker(i) == WorkerStart(i) \/ WorkerRaise(i) \/ WorkerItem(i)

NextDrain ==
    \/ Add
    \/ \E d \in SpawnIds : DispatcherScan(d)
    \/ \E d \in SpawnIds : DispatcherLaunch(d)
    \/ \E d \in SpawnIds : DispatcherCheck(d)
    \/ \E d \in SpawnIds : DispatcherCleanup(d)
    \/ \E d \in SpawnIds : DispatcherJoin(d)
    \/ \E d \in SpawnIds : DispatcherCancel(d)
    \/ \E i \in ItemIds : WorkerStart(i)
    \/ \E i \in ItemIds : WorkerRaise(i)
    \/ \E i \in ItemIds : WorkerItem(i)

\* every started thread keeps being scheduled; add() is called or not
FairSpecDrain ==
    /\ Init /\ [][NextDrain]_vars
    /\ \A d \in SpawnIds : WF_vars(Dispatcher(d))
    /\ \A i \in ItemIds : WF_vars(Worker(i))

(* ---- add() and stop() against the threads, the threads scheduled fairly ---- *)
NextStop ==
    \/ Add
    \/ Stop
    \/ \E d \in SpawnIds : DispatcherScan(d)
    \/ \E d \in SpawnIds : DispatcherLaunch(d)
    \/ \E d \in SpawnIds : DispatcherCheck(d)
    \/ \E d \in SpawnIds : DispatcherCleanup(d)
    \/ \E d \in SpawnIds : DispatcherJoin(d)
    \/ \E d \in SpawnIds : DispatcherCancel(d)
    \/ \E i \in ItemIds : WorkerStart(i)
    \/ \E i \in ItemIds : WorkerRaise(i)
    \/ \E i \in ItemIds : WorkerItem(i)

\* every started thread keeps being scheduled; add() and stop() are called or not
FairSpecStop ==
    /\ Init /\ [][NextStop]_vars
    /\ \A d \in SpawnIds : WF_vars(Dispatcher(d))
    /\ \A i \in ItemIds : WF_vars(Worker(i))

(* ============================== claims ================================ *)
Halted == run_pc \in {"finalize", "done"}
Total == starting_ebay_count + session_call_count
\* the run itself takes this step
RunStep == run_pc' # run_pc \/ card_results' # card_results
\* this step hands a card to the Collector
CollectorStep == /\ Len(card_results') = Len(card_results) + 1
                 /\ card_results'[Len(card_results')].status # "skipped"
\* every handled card cost exactly one call
OneCallPerItem ==
    /\ session_call_count = Len(card_results)
    /\ \A j \in 1..Len(card_results) :
          card_results[j].error \notin {"No eBay query defined", "Exception"}

C1_Scenario ==
    (starting_ebay_count = DefaultDailyLimit - 2 /\ OneCallPerItem)
        => /\ Len(card_results) <= 2
           /\ (Halted /\ ~stop_requested /\ Len(cards) > 2)
                 => (Len(card_results) = 2 /\ stats.stopped_api_limit)

C1_Step ==
    /\ CollectorStep => Total < DefaultDailyLimit
    /\ (/\ RunStep /\ run_pc = "loop" /\ Len(card_results) < Len(cards)
        /\ ~stop_requested /\ Total >= DefaultDailyLimit)
          => /\ run_pc' = "finalize" /\ stats'.stopped_api_limit
             /\ card_results' = card_results
             /\ session_call_count' = session_call_count
    /\ Halted => (card_results' = card_results /\ session_call_count' = session_call_count)

\* C1: budget admission. No card is handed to the Collector once the counter seen at
\* run start plus the calls of this run has reached the daily limit; a run that
\* reaches the budget check of a card in that state halts with stopped_api_limit,
\* keeps the outcomes it has and handles no further card; from 4998 of 5000 with
\* one call per card exactly two cards are handled.
C1_BudgetAdmission == [](C1_Scenario) /\ [][C1_Step]_vars

C1_Witness ==
    /\ run_pc = "done" /\ stats.stopped_api_limit
    /\ starting_ebay_count = DefaultDailyLimit - 2
    /\ Len(card_results) = 2 /\ stats.succeeded = 2 /\ Len(cards) > 2

\* consecutive failures of set s among the first n outcomes: the failed cards of s
\* since the last success of s
RECURSIVE TrailFails(_, _)
TrailFails(s, n) ==
    IF n = 0 THEN 0
    ELSE IF cards[n] # s THEN TrailFails(s, n - 1)
    ELSE IF card_results[n].status = "success" THEN 0
    ELSE IF card_results[n].status = "failed" THEN 1 + TrailFails(s, n - 1)
    ELSE TrailFails(s, n - 1)

C2_Outcomes ==
    \A j \in 1..Len(card_results) :
        (card_results[j].status = "skipped")
            <=> (TrailFails(cards[j], j - 1) >= MAX_SET_FAILURES)

C2_Step ==
    /\ (Len(card_results') = Len(card_results) + 1
        /\ card_results'[Len(card_results')].status = "skipped")
          => (session_call_count' = session_call_count /\ run_pc' = "loop")
    /\ skipped_sets \subseteq skipped_sets'

\* C2: per-set circuit breaker. A card is marked skipped exactly when its set has had
\* 10 consecutive failed cards before it in this run (cards of other sets in between
\* neither count nor reset); a skip makes no external call and does not end the
\* run; a set once given up is never taken back.
C2_CircuitBreaker == [](C2_Outcomes) /\ [][C2_Step]_vars

C2_Witness ==
    \E j, k \in 1..Len(card_results) :
        /\ j < k /\ card_results[j].status = "skipped" /\ cards[j] = "s1"
        /\ cards[k] = "s2" /\ card_results[k].status # "skipped"

Is429(r) == r.error \in {"Search failed: 429", "Erreur 429"}

\* C3: a 429 answer while card k is collected halts the run at once with
\* stopped_rate_limit and writes the cooldown marker; no card after k is handled.
C3_RateLimitHalts ==
    \A j \in 1..Len(card_results) :
        Is429(card_results[j])
            => /\ j = Len(card_results)
               /\ Halted /\ stats.stopped_rate_limit /\ rate_limited

\* this step starts item i: PENDING to RUNNING
Starts(i) == items[i].status = PENDING /\ items'[i].status = RUNNING

\* C4: cooperative cancellation. A run that was in its loop when a stop was requested
\* starts no further card: at its next per-item check it sees the request and
\* returns, whatever other runs start or progress in between.
C4_StopObserved == [][\A r \in stop_owed : runs'[r].idx = runs[r].idx]_vars

\* C5: bounded concurrency. In every reachable state the number of RUNNING items is
\* at most max_workers, and max_workers is within 1..10.
C5_BoundedConcurrency ==
    /\ Cardinality({i \in ItemIds : items[i].status = RUNNING}) <= max_workers
    /\ max_workers \in 1..10

\* C6: global stop. Once stop() has been called and no later add() has restarted the
\* pool (the queue's stop Event is still set), no item goes from PENDING to RUNNING.
C6_NoStartAfterStop == [][q_stop => \A i \in ItemIds : ~Starts(i)]_vars

\* C7: dispatch liveness. With no stop requested, every item that add() has put in
\* the list as PENDING eventually leaves PENDING.
C7_DispatchLiveness ==
    \A i \in ItemIds : (items[i].status = PENDING) ~> (items[i].status # PENDING)

\* C8: once a run of the queue has had a card rejected with 429, the queue starts no
\* further PENDING item (the cooldown is never cleared in this model).
C8_CooldownStopsQueue == [][db_429 => \A i \in ItemIds : ~Starts(i)]_vars

\* C9: FIFO dispatch. An item is never started while an item added before it is
\* still waiting in the list as PENDING.
C9_FIFO ==
    [][\A a, b \in ItemIds :
          (a < b /\ Listed(a) /\ items[a].status = PENDING) => ~Starts(b)]_vars

\* two listed items, the older started and the younger still waiting
C9_Witness ==
    /\ max_workers = 1
    /\ \E a, b \in ItemIds :
          /\ a < b /\ Listed(a) /\ Listed(b)
          /\ items[a].status = RUNNING /\ items[b].status = PENDING

\* the guardrail's view of its last input
NoAnchor == g_input.anchor = None \/ g_input.anchor <= 0
HasReference == g_input.cm # None /\ g_input.cm > 0
\* steps 3-5 of the decision order, reached with an anchor and a reference
MismatchTriggered ==
    /\ ~NoAnchor /\ HasReference
    /\ \/ 10 * g_input.anchor > mismatch_upper * g_input.cm
       \/ 10 * g_input.anchor < mismatch_lower * g_input.cm
       \/ (g_input.dispersion # None /\ g_input.dispersion > dispersion_bad)

\* C10 as stated: final_source is CARDMARKET_FALLBACK iff a mismatch condition
\* triggered or no anchor existed; otherwise EBAY_ACTIVE with final_anchor equal to
\* original_anchor.
C10_AsStated ==
    g_input.called =>
        /\ (g_result.final_source = CARDMARKET_FALLBACK)
              <=> (MismatchTriggered \/ NoAnchor)
        /\ ~(MismatchTriggered \/ NoAnchor)
              => /\ g_result.final_source = EBAY_ACTIVE
                 /\ g_result.final_anchor = g_result.original_anchor

\* C10, amended: final_source is CARDMARKET_FALLBACK iff a reference price (> 0) is
\* available and either a mismatch condition triggered or no anchor existed, and then
\* final_anchor is the reference price; in every other case final_source is
\* EBAY_ACTIVE and final_anchor is original_anchor when an anchor existed, null
\* when there was neither anchor nor reference.
C10_GuardrailInvariant ==
    g_input.called =>
        /\ g_result.original_anchor = g_input.anchor
        /\ (g_result.final_source = CARDMARKET_FALLBACK)
              <=> (HasReference /\ (MismatchTriggered \/ NoAnchor))
        /\ g_result.final_source = CARDMARKET_FALLBACK
              => g_result.final_anchor = g_input.cm
        /\ g_result.final_source # CARDMARKET_FALLBACK
              => /\ g_result.final_source = EBAY_ACTIVE
                 /\ g_result.final_anchor =
                       IF NoAnchor THEN None ELSE g_result.original_anchor

\* check was called with neither an anchor nor a reference price
C10_Witness ==
    /\ g_input.called /\ NoAnchor /\ ~HasReference
    /\ g_result.final_source = EBAY_ACTIVE /\ g_result.final_anchor = None

\* the last call had the reference price 10 and a dispersion that is not too high
Reference10 ==
    /\ g_input.called /\ g_input.cm = 10
    /\ (g_input.dispersion = None \/ g_input.dispersion <= dispersion_bad)

\* C11 as stated: anchor 25 against reference 10 is a mismatch, the final anchor is
\* 10 and the final source is the fallback.
C11_AsStated ==
    (Reference10 /\ g_input.anchor = 25)
        => /\ g_result.is_mismatch
           /\ g_result.final_anchor = 10
           /\ g_result.final_source = CARDMARKET_FALLBACK

\* C11, amended: the upper bound is strict. Anchor 25 against reference 10 (25 is
\* not above 2.5 x 10) is no mismatch and stays the final anchor with the primary
\* source; anchor 26 is a mismatch with final anchor 10 and the fallback source.
C11_UpperBoundExample ==
    Reference10 =>
        /\ g_input.anchor = 25
              => /\ ~g_result.is_mismatch
                 /\ g_result.final_anchor = 25
                 /\ g_result.final_source = EBAY_ACTIVE
        /\ g_input.anchor = 26
              => /\ g_result.is_mismatch
                 /\ g_result.final_anchor = 10
                 /\ g_result.final_source = CARDMARKET_FALLBACK

C11_Witness ==
    /\ Reference10 /\ g_input.anchor = 25
    /\ ~g_result.is_mismatch /\ g_result.final_anchor = 25

\* the number of the first rule of the decision order that matches the last input
FirstRule ==
    IF NoAnchor /\ HasReference THEN 1
    ELSE IF ~HasReference THEN 2
    ELSE IF 10 * g_input.anchor > mismatch_upper * g_input.cm THEN 3
    ELSE IF 10 * g_input.anchor < mismatch_lower * g_input.cm THEN 4
    ELSE IF g_input.dispersion # None /\ g_input.dispersion > dispersion_bad THEN 5
    ELSE 6

\* the result is the fallback to the reference price
IsFallback ==
    /\ g_result.final_source = CARDMARKET_FALLBACK
    /\ g_result.final_anchor = g_input.cm
\* the result keeps the anchor it was given
KeepsAnchor ==
    /\ g_result.final_source = EBAY_ACTIVE
    /\ g_result.final_anchor = g_input.anchor

\* C12 as stated: the result is the outcome of the first matching rule, rule 2
\* (no reference available) keeping the anchor as it was given.
C12_AsStated ==
    g_input.called =>
        /\ FirstRule \in {1, 3, 4, 5} => IsFallback
        /\ FirstRule \in {2, 6} => KeepsAnchor

\* C12, amended: the result is the outcome of the first matching rule: fallback
\* to the reference for rules 1, 3, 4 and 5 (each with its own reason), the anchor
\* kept with the primary source and no mismatch for rules 2 and 6, except that
\* under rule 2 with no anchor (null or <= 0) the final anchor is null. Anchor 9
\* against reference 10 with acceptable dispersion is rule 6: no mismatch, final
\* anchor 9.
C12_DecisionOrder ==
    g_input.called =>
        /\ FirstRule \in {1, 3, 4, 5} => (IsFallback /\ g_result.is_mismatch)
        /\ FirstRule = 1 => g_result.mismatch_reason = "No eBay anchor"
        /\ FirstRule = 3 => g_result.mismatch_reason = "eBay > upper x Cardmarket"
        /\ FirstRule = 4 => g_result.mismatch_reason = "eBay < lower x Cardmarket"
        /\ FirstRule = 5 => g_result.mismatch_reason = "Dispersion too high"
        /\ FirstRule \in {2, 6}
              => /\ ~g_result.is_mismatch
                 /\ g_result.final_source = EBAY_ACTIVE
                 /\ g_result.final_anchor =
                       IF NoAnchor THEN None ELSE g_input.anchor
        /\ (Reference10 /\ g_input.anchor = 9)
              => (FirstRule = 6 /\ ~g_result.is_mismatch /\ g_result.final_anchor = 9)

\* a call where a bound and the dispersion both match: the bound decides
C12_Witness ==
    /\ g_input.called /\ FirstRule = 3
    /\ g_input.dispersion # None /\ g_input.dispersion > dispersion_bad
    /\ g_result.mismatch_reason = "eBay > upper x Cardmarket"

\* the errors a failed CollectionResult carries
CollectorFailures == {"No items found", "No valid prices after normalization",
                      "No eBay query defined", "Search failed: 429"}
\* this step records the outcome of card n
Records(n, status) ==
    /\ Len(card_results) = n - 1 /\ Len(card_results') = n
    /\ card_results'[n].status = status
StopFlags(st) == <<st.stopped_api_limit, st.stopped_rate_limit,
                   st.stopped_consecutive_failures>>

C13_Step ==
    \A n \in 1..Len(cards) :
        /\ (Records(n, "failed") /\ card_results'[n].error \in CollectorFailures)
              => /\ run_pc' # "finalize" /\ StopFlags(stats') = StopFlags(stats)
                 /\ progress_callback = "None" => run_pc' = "loop"
                 /\ stats'.failed = stats.failed + 1
                 /\ stats'.succeeded = stats.succeeded
                 /\ error_count'[n] =
                       (IF error_count[n] = None THEN 0 ELSE error_count[n]) + 1
                 /\ set_failures'[cards[n]] = set_failures[cards[n]] + 1
                 /\ \A j \in 1..Len(cards) : j # n => error_count'[j] = error_count[j]
                 /\ \A s \in Sets : s # cards[n] => set_failures'[s] = set_failures[s]
                 /\ SubSeq(card_results', 1, n - 1) = card_results
        /\ Records(n, "success")
              => /\ error_count'[n] = 0
                 /\ set_failures'[cards[n]] = 0

\* C13: a Collector failure marks only that card failed, sets no stop flag and does
\* not end the loop, and adds one to the card's error_count (None counting as 0) and
\* to its set's consecutive-failure counter, leaving the other cards and sets alone;
\* a successful card sets its error_count and its set's counter to 0.
C13_FailureBookkeeping == [][C13_Step]_vars

\* a stored count of 3 became 4 on a Collector failure, and the next card succeeded
C13_Witness ==
    \E n \in 1..Len(card_results) - 1 :
        /\ card_results[n].status = "failed"
        /\ card_results[n].error \in CollectorFailures
        /\ error_count[n] = 4
        /\ card_results[n + 1].status = "success" /\ error_count[n + 1] = 0

\* C14: no exception raised while an item is handled leaves run(): the run is
\* never ended by an exception.
C14_RunSurvives == run_pc # "raised"

\* C15: a run that has returned has a BatchRun row with finished_at and the final
\* counts.
C15_RunRecord ==
    run_pc = "done"
        => /\ batch_run.created /\ batch_run.finished_at
           /\ batch_run.cards_succeeded = stats.succeeded
           /\ batch_run.cards_failed = stats.failed

\* is_rate_limited() in the state after the step
is_rate_limited_next == rate_limited' /\ rl_api_date' = get_ebay_api_date(now')
\* kinds of step, by their effect
SetStep == rate_limited' /\ markerVars' # markerVars
ClearStep == rate_limited /\ ~rate_limited'
Crossing == Hour(now) = EBAY_RESET_HOUR - 1 /\ now' = now + 1
ScheduledStep == sched' # sched

C16_Step ==
    /\ SetStep => is_rate_limited_next
    /\ (is_rate_limited /\ ScheduledStep)
          => (sched' = "skipped" /\ runVars' = runVars /\ queueVars' = queueVars)
    /\ (is_rate_limited /\ ~Crossing /\ ~ClearStep) => is_rate_limited_next
    /\ (is_rate_limited /\ (Crossing \/ ClearStep)) => ~is_rate_limited_next
    /\ (~is_rate_limited /\ ~SetStep) => ~is_rate_limited_next
    /\ (~is_rate_limited /\ ScheduledStep) => sched' = "proceeds"

\* C16: after set_rate_limited() the block is on; while it is on, every scheduled
\* invocation skips without starting anything, and it stays on until the clock
\* passes 09:00 or clear_rate_limited() is called; after either it is off, stays
\* off until the next set_rate_limited(), and scheduled invocations go on.
C16_CooldownLifecycle == [][C16_Step]_vars

\* a marker that made a scheduled invocation skip and that the 09:00 boundary has
\* since made stale
C16_Witness ==
    /\ rate_limited /\ ~is_rate_limited
    /\ sched = "skipped" /\ Hour(now) = EBAY_RESET_HOUR

\* the positive normalized prices of the listings collected by the last call
PositivePrices == _normalize_prices(ResultItems(c_input.items, c_input.is_reverse))
\* the number of listings collected by the last call
ListingsCollected == Len(ResultItems(c_input.items, c_input.is_reverse))

\* C17: for every listing set and every configured minimum, a call whose search
\* returned and whose positive normalized prices are fewer than the minimum
\* fails with raw_count equal to the number of listings collected; and no call
\* succeeds when there is no positive normalized price.
C17_MinimumSample ==
    (c_input.called /\ ~c_input.search_raises)
        => /\ Len(PositivePrices) < c_input.min_sample_size
                => (~c_result.success /\ c_result.stats.raw_count = ListingsCollected)
           /\ PositivePrices = <<>> => ~c_result.success

\* C18: for every input tuple, calculate yields five sub-scores, each at least 0
\* and at most its weight (30, 25, 15, 20, 10, which sum to 100), and total is
\* their sum, so that 0 <= total <= 100.
C18_ConfidenceComposition ==
    /\ WEIGHT_SAMPLE_SIZE + WEIGHT_DISPERSION + WEIGHT_CARDMARKET
          + WEIGHT_SOURCE + WEIGHT_STABILITY = 100
    /\ s_result.sample_size_score \in 0 .. WEIGHT_SAMPLE_SIZE
    /\ s_result.dispersion_score \in 0 .. WEIGHT_DISPERSION
    /\ s_result.cardmarket_available_score \in 0 .. WEIGHT_CARDMARKET
    /\ s_result.source_score \in 0 .. WEIGHT_SOURCE
    /\ s_result.stability_score \in 0 .. WEIGHT_STABILITY
    /\ s_result.total = s_result.sample_size_score + s_result.dispersion_score
                        + s_result.cardmarket_available_score
                        + s_result.source_score + s_result.stability_score
    /\ s_result.total \in 0 .. 100

\* a call whose sub-scores are all strictly inside their ranges
C18_Witness ==
    /\ s_input.called
    /\ s_result.sample_size_score = 21 /\ s_result.dispersion_score = 17
    /\ s_result.source_score = 12 /\ s_result.stability_score = 6
    /\ s_result.total = 56

\* the total of the last call with its dispersion replaced by d
TotalWithDispersion(d) ==
    calculate(s_input.sample_size, d, s_input.has_cardmarket, s_input.anchor_source,
              s_input.previous_anchor, s_input.current_anchor).total
\* the total of the last call with its sample size replaced by n
TotalWithSampleSize(n) ==
    calculate(n, s_input.dispersion, s_input.has_cardmarket, s_input.anchor_source,
              s_input.previous_anchor, s_input.current_anchor).total

\* C19: all other inputs fixed, the total does not increase when the dispersion
\* increases and does not decrease when the sample size increases, over all the
\* dispersions and all the sample sizes of the bounded ranges.
C19_ConfidenceMonotone ==
    s_input.called
        => /\ s_input.dispersion # None
                => \A d \in ScoredDispersions \ {None} :
                      d >= s_input.dispersion => TotalWithDispersion(d) <= s_result.total
           /\ s_input.sample_size # None
                => \A n \in SampleSizes \ {None} :
                      n >= s_input.sample_size => TotalWithSampleSize(n) >= s_result.total

\* a call for which a larger dispersion scores strictly lower and a larger sample
\* strictly higher
C19_Witness ==
    /\ s_input.called
    /\ s_input.dispersion = 40 /\ TotalWithDispersion(41) < s_result.total
    /\ s_input.sample_size = 29 /\ TotalWithSampleSize(30) > s_result.total

\* anchor x (1 - fees_rate - margin_target - risk_total) - fixed_costs of the last
\* call, clamped to [min_buy_price, max_buy_price]; in 1/1000 of a cent
ClampedBase ==
    Min(Max(p_input.anchor_price * (PerMille - fees_rate - margin_target - p_result.risk_total)
                - fixed_costs_eur * PerMille,
            min_buy_price * PerMille),
        max_buy_price * PerMille)
\* the base price of the last call times a tier coefficient, clamped; in 1/100
\* of a cent
ClampedTier(coef) ==
    Min(Max(p_result.buy_base * coef, min_buy_price * Hundredths),
        max_buy_price * Hundredths)
\* price (cents) is the value (in 1/scale of a cent) rounded to the step
RoundedTo(price, value, scale) ==
    /\ price % rounding_step = 0
    /\ 2 * Abs(price * scale - value) <= rounding_step * scale

\* C20: the base price is anchor x (1 - fees_rate - margin_target - risk_total)
\* - fixed_costs, clamped to [min_price, max_price] and rounded to the step;
\* with anchor 20, fees 0.11, margin 0.27, risk_total 0.03, fixed costs 0.50 and
\* step 0.10 it is 11.30; each tier price is the base price times the tier's
\* coefficient, clamped and rounded the same way.
C20_BasePriceFormula ==
    p_input.called
        => /\ RoundedTo(p_result.buy_base, ClampedBase, PerMille)
           /\ (p_input.anchor_price = 2000 /\ p_result.risk_total = 30)
                 => p_result.buy_base = 1130
           /\ RoundedTo(p_result.buy_neuf, ClampedTier(coef_neuf), Hundredths)
           /\ RoundedTo(p_result.buy_bon, ClampedTier(coef_bon), Hundredths)
           /\ RoundedTo(p_result.buy_correct, ClampedTier(coef_correct), Hundredths)

\* the worked example: anchor 20.00 with a risk of 0.03 gives 11.30, and the
\* tiers 11.30, 6.80 and 3.40
C20_Witness ==
    /\ p_input.called /\ p_input.anchor_price = 2000 /\ p_result.risk_total = 30
    /\ p_result.buy_base = 1130 /\ p_result.buy_neuf = 1130
    /\ p_result.buy_bon = 680 /\ p_result.buy_correct = 340

\* price lies within the configured bounds and is a multiple of the step
WithinBounds(price) ==
    /\ p_input.config.min_buy_price <= price
    /\ price <= p_input.config.max_buy_price
    /\ price % p_input.config.rounding_step = 0

\* C21: for every anchor and every configuration with min_price <= max_price
\* and step > 0, the base price and the three tier prices lie within
\* [min_price, max_price] and are multiples of the step.
C21_PriceBounds ==
    p_input.called
        => /\ WithinBounds(p_result.buy_base)
           /\ WithinBounds(p_result.buy_neuf)
           /\ WithinBounds(p_result.buy_bon)
           /\ WithinBounds(p_result.buy_correct)

\* C22: a run that was given a callback has called it once after every item it
\* has handled, whatever the outcome (succeeded, failed, or skipped by the
\* breaker of its set), with the processed count one higher at each call.
C22_ProgressReporting ==
    progress_callback # "None"
        => /\ Len(progress_calls) = Len(card_results)
           /\ \A n \in 1 .. Len(progress_calls) : progress_calls[n] = n

\* C23: every item that ended succeeded has a persisted record for which the
\* stages Collector, Statistics, Guardrail, Confidence and Calculator ran in that
\* order, and that carries the post-guardrail anchor and a confidence score.
C23_PipelineOrder ==
    /\ \A n \in 1 .. Len(card_results) :
          card_results[n].status = "success" => \E k \in 1 .. Len(snapshots) : snapshots[k].card = n
    /\ \A k \in 1 .. Len(snapshots) :
          /\ snapshots[k].stages
                = <<"Collector", "Statistics", "Guardrail", "Confidence", "Calculator">>
          /\ snapshots[k].post_guardrail
          /\ snapshots[k].confidence_score # None

\* C24: a search_all that has returned returns at most max_items listings, and
\* it stopped requesting pages only because the kept listings had reached
\* max_items or the offset had reached the reported total.
C24_Pagination ==
    paging.pc = "returned"
        => /\ paging.returned <= paging.max_items
           /\ \/ paging.all_items >= paging.max_items
              \/ paging.offset >= paging.total

\* the row of the n-th card of the last worklist
WorkCard(n) == w_input.table[w_result[n]]
\* the tier of a card in priority mode
Tier(c) ==
    IF ~c.snapshot.exists THEN 1
    ELSE IF c.err.last_error_hours # None /\ c.err.error_count < max_error_retries THEN 2
    ELSE IF \/ c.err.error_count >= max_error_retries
            \/ (c.snapshot.anchor_price # None /\ c.snapshot.anchor_price < low_value_threshold)
    THEN 3
    ELSE 4
\* the last attempt errored less than 24 hours ago
InErrorCooldown(c) ==
    c.err.last_error_hours # None /\ c.err.last_error_hours <= error_cooldown_hours
\* a low-value card whose snapshot is newer than low_value_refresh_days
FreshLowValue(c) ==
    /\ c.snapshot.exists /\ c.snapshot.anchor_price # None
    /\ c.snapshot.anchor_price < low_value_threshold
    /\ c.snapshot.age_days <= low_value_refresh_days

\* the worklist is in the order of the tiers, oldest snapshot first within a tier
WorklistOrdered ==
    \A i, j \in 1 .. Len(w_result) :
        i < j => \/ Tier(WorkCard(i)) < Tier(WorkCard(j))
                 \/ /\ Tier(WorkCard(i)) = Tier(WorkCard(j))
                    /\ (WorkCard(i).snapshot.exists
                           => WorkCard(i).snapshot.age_days >= WorkCard(j).snapshot.age_days)

\* C25: in priority mode the worklist is ordered by tier (no snapshot, last
\* attempt errored, low-value or retry-exhausted, the rest), oldest snapshot
\* first within a tier; it holds no card whose last attempt errored within the
\* 24h cooldown and no low-value card whose snapshot is newer than
\* low_value_refresh_days.
C25_PriorityWorklist ==
    w_input.called
        => /\ WorklistOrdered
           /\ \A n \in 1 .. Len(w_result) :
                 ~InErrorCooldown(WorkCard(n)) /\ ~FreshLowValue(WorkCard(n))

\* C26: the counter of the admission check is one counter for the process: the
\* count that every active run checks holds the calls of all runs, and the
\* calls made today never exceed the daily limit by more than one item's call
\* per worker.
C26_ProcessWideCounter ==
    /\ \A w \in RunnerIds :
          runners[w].pc = "loop"
             => runners[w].starting_ebay_count + runners[w].session_call_count = ebay_count
    /\ ebay_count <= DefaultDailyLimit + MaxRunners

C28_NoStuckItem ==
    \A i \in ItemIds :
        (items[i].status = RUNNING)
            ~> (items[i].status \in {COMPLETED, FAILED} /\ items[i].finished)

\* C29: an item removed by clear_pending() is never started afterwards: every
\* item that is RUNNING is in the queue list, where get_status and the
\* dispatcher's running count see it.
C29_ClearPendingEffective ==
    \A i \in ItemIds : items[i].status = RUNNING => Listed(i)

\* C30: at any time at most one item per set_id is active (PENDING or RUNNING)
\* in the queue: add() of a set that is in the queue and not finished creates
\* no second active item.
C30_OneActivePerSet ==
    \A i, j \in ItemIds :
        (/\ i # j
         /\ Listed(i) /\ Listed(j)
         /\ items[i].status \in {PENDING, RUNNING}
         /\ items[j].status \in {PENDING, RUNNING})
            => items[i].set_id # items[j].set_id

====
